---- MODULE Spec2Model ----
(***************************************************************************)
(* Model of the GrantWell chatbot-api request handlers: the document       *)
(* deletion adapters, the knowledge-base sync adapter, the draft and       *)
(* session store adapters and their list-by-owner loops.                   *)
(*                                                                         *)
(* Python strings are sequences of one-character strings, None is the      *)
(* empty tuple and a present value v is the 1-tuple <<v>>.                 *)
(***************************************************************************)
EXTENDS Integers, Sequences, FiniteSets, TLC

VARIABLES
    \* ---- document deletion adapters (delete-document, delete-s3) ----
    delPc,        \* "idle" | "pending" | "done": position of the invocation
    delReq,       \* the event handed to lambda_handler
    delResp,      \* statusCode of the response, 0 while there is none
    delEnv,       \* which backend calls of this invocation fail
    delCfg,       \* process environment of the deletion adapters
    bucket,       \* keys of the objects in the user documents bucket
    delCalls,     \* keys passed to s3.Object(..).delete() by this invocation
    invokeCalls,  \* payloads passed to lambda_client.invoke by this invocation
    \* ---- knowledge-base sync adapter (kb-sync) ----
    syncCfg,      \* which data source ids the environment configures
    jobs,         \* data source -> statuses of its ingestion jobs, oldest first
    inv,          \* invocation -> position and locals of lambda_handler
    startLog,     \* the start_ingestion_job calls made so far
    \* ---- draft store adapter (draft-editor) ----
    drafts,       \* (user_id, session_id) -> the row of the draft table
    now,          \* the value datetime.now() returns to the next invocation
    dPc,          \* "idle" | "done": position of the invocation
    dReq,         \* the parsed body of the event handed to lambda_handler
    dFault,       \* the ClientError code the table call of this invocation raised
    dPrev,        \* the row of the request's key before this invocation
    dResp,        \* the response: status code, body item, deleted flag
    \* ---- list-by-owner of the draft and the session adapter ----
    lAdapter,     \* "draft" | "session": whose table the index belongs to
    index,        \* the owner's rows in the order of the index, newest first
    lPc,          \* "idle" | "loop" | "sort" | "done"
    lReq,         \* operation and document_identifier of the request
    lLimit,       \* limit
    lFilter,      \* document_identifier handed to the list function
    lItems,       \* items
    lKey,         \* last_evaluated_key: the number of index rows read so far
    lResp,        \* the response: status code and the listed items
    \* ---- feedback adapter (feedback-handler) ----
    fbTable,      \* (Topic, CreatedAt) -> the row of the feedback table
    fbClock,      \* the second datetime.utcnow() falls in
    fbIds,        \* the number of feedback ids generated so far
    fbPc,         \* "idle" | "done": position of the invocation
    fbReq,        \* the event handed to lambda_handler
    fbResp,       \* the function called and what it returned
    \* ---- CSV export of the feedback adapter ----
    csvItems,     \* response['Items'] of the download query
    csvContent,   \* csv_content
    csvPc,        \* "idle" | "done"
    \* ---- knowledge-base sync adapter, HTTP invocations ----
    hPc,          \* "idle" | "done": position of the invocation
    hReq,         \* rawPath and role claim of the event
    hResp,        \* what lambda_handler returned
    hCalls,       \* the bedrock-agent calls of this invocation, in order
    \* ---- session store adapter (session-handler) ----
    sessions,     \* the row of the session table under the key (u1, s1)
    sInv,         \* invocation -> position, event and locals of lambda_handler
    \* ---- delete-all-for-owner (delete_user_drafts, delete_user_sessions) ----
    uAdapter,     \* "draft" | "session": the adapter whose handler runs
    uTable,       \* the rows of the owner, newest first
    uPc,          \* "idle" | "list" | "loop" | "done"
    uReq,         \* the event body
    uListing,     \* drafts / sessions: what the list function returned
    uPos,         \* position of the for loop
    uRet,         \* ret_value
    uResp,        \* what lambda_handler returns
    \* ---- HTML-to-PDF adapter (html-to-pdf-converter) ----
    pdfObjects,   \* the keys of the objects in the bucket
    pdfPc,        \* "idle" | "loop" | "done"
    pdfEvent,     \* event['Records']
    pdfPos,       \* position of the for loop
    pdfLog,       \* per record: how the pass ended and the S3 calls it made
    pdfResp,      \* statusCode of the response
    \* ---- search index bootstrap (create-index-lambda) ----
    idxExists,    \* whether the collection holds the index
    idxPc,        \* "idle" | "create" | "verify" | "except" | "done"
    idxCreateError,\* what client.indices.create raised, "" when it did not raise
    idxE,         \* e of the except clause
    idxCheck,     \* outcome of the existence check of the except clause
    idxResult,    \* what the handler returned or raised
    idxRuns,      \* number of invocations so far
    \* ---- get_last_sync of the sync adapter ----
    lsCfg,        \* which data source ids are configured
    lsJobs,       \* data source -> its ingestion job summaries
    lsPc,         \* "idle" | "done"
    lsStatus,     \* statusCode of the response
    lsBody        \* body of the response

delVars == <<delPc, delReq, delResp, delEnv, delCfg, bucket, delCalls, invokeCalls>>

syncVars == <<syncCfg, jobs, inv, startLog>>
draftVars == <<drafts, now, dPc, dReq, dFault, dPrev, dResp>>
listVars == <<lAdapter, index, lPc, lReq, lLimit, lFilter, lItems, lKey, lResp>>
fbVars == <<fbTable, fbClock, fbIds, fbPc, fbReq, fbResp>>
csvVars == <<csvItems, csvContent, csvPc>>
httpVars == <<hPc, hReq, hResp, hCalls>>
sessVars == <<sessions, sInv>>
userVars == <<uAdapter, uTable, uPc, uReq, uListing, uPos, uRet, uResp>>
pdfVars == <<pdfObjects, pdfPc, pdfEvent, pdfPos, pdfLog, pdfResp>>
idxVars == <<idxExists, idxPc, idxCreateError, idxE, idxCheck, idxResult, idxRuns>>
lastVars == <<lsCfg, lsJobs, lsPc, lsStatus, lsBody>>

vars == <<delVars, syncVars, draftVars, listVars, fbVars, csvVars, httpVars, sessVars, userVars, pdfVars, idxVars, lastVars>>

\* what an action of one adapter leaves alone: the state of the others
notDel == <<syncVars, draftVars, listVars, fbVars, csvVars, httpVars, sessVars, userVars, pdfVars, idxVars, lastVars>>
notSync == <<delVars, draftVars, listVars, fbVars, csvVars, httpVars, sessVars, userVars, pdfVars, idxVars, lastVars>>
notDraft == <<delVars, syncVars, listVars, fbVars, csvVars, httpVars, sessVars, userVars, pdfVars, idxVars, lastVars>>
notList == <<delVars, syncVars, draftVars, fbVars, csvVars, httpVars, sessVars, userVars, pdfVars, idxVars, lastVars>>
notFb == <<delVars, syncVars, draftVars, listVars, csvVars, httpVars, sessVars, userVars, pdfVars, idxVars, lastVars>>
notCsv == <<delVars, syncVars, draftVars, listVars, fbVars, httpVars, sessVars, userVars, pdfVars, idxVars, lastVars>>
notHttp == <<delVars, syncVars, draftVars, listVars, fbVars, csvVars, sessVars, userVars, pdfVars, idxVars, lastVars>>
notSess == <<delVars, syncVars, draftVars, listVars, fbVars, csvVars, httpVars, userVars, pdfVars, idxVars, lastVars>>
notUser == <<delVars, syncVars, draftVars, listVars, fbVars, csvVars, httpVars, sessVars, pdfVars, idxVars, lastVars>>
notPdf == <<delVars, syncVars, draftVars, listVars, fbVars, csvVars, httpVars, sessVars, userVars, idxVars, lastVars>>
notIdx == <<delVars, syncVars, draftVars, listVars, fbVars, csvVars, httpVars, sessVars, userVars, pdfVars, lastVars>>
notLast == <<delVars, syncVars, draftVars, listVars, fbVars, csvVars, httpVars, sessVars, userVars, pdfVars, idxVars>>

----------------------------------------------------------------------------
(* Bounds *)

MaxKeyLen == 3
MaxInvocations == 2
MaxTitleLen == 2
MaxClock == 3
ListSlack == 2
MaxFeedback == 2
MaxFbClock == 2
MaxFieldLen == 2
MaxCsvRows == 2
MaxHistory == 2

----------------------------------------------------------------------------
(* Python values *)

None == <<>>
Some(v) == <<v>>

SeqsUpTo(S, n) == UNION {[1..k -> S] : k \in 0..n}

\* str.startswith
StartsWith(s, p) == Len(p) <= Len(s) /\ SubSeq(s, 1, Len(p)) = p

\* truthiness of an optional string: None and "" are falsy
Truthy(o) == o # None /\ o[1] # <<>>

\* a or b
PyOr(a, b) == IF Truthy(a) THEN a ELSE b

----------------------------------------------------------------------------
(* Document deletion adapters *)

KeyChars == {"a", "/", "f"}
Keys == SeqsUpTo(KeyChars, MaxKeyLen)
UserNames == {<<"a">>, <<"a", "f">>}

OptUser == {None, Some(<<>>)} \cup {Some(u) : u \in UserNames}

\* the body's KEY member: absent, JSON null, a number, or a string
KeyVals == {[t |-> "absent", n |-> 0, s |-> <<>>],
            [t |-> "null", n |-> 0, s |-> <<>>],
            [t |-> "num", n |-> 0, s |-> <<>>],
            [t |-> "num", n |-> 1, s |-> <<>>]}
           \cup {[t |-> "str", n |-> 0, s |-> k] : k \in Keys}

\* event['body']: missing, not JSON, JSON that is not an object, or an object
Bodies == {[kind |-> b, key |-> [t |-> "absent", n |-> 0, s |-> <<>>]] :
               b \in {"missing", "badjson", "nondict"}}
          \cup {[kind |-> "dict", key |-> kv] : kv \in KeyVals}

\* event["requestContext"]["authorizer"]["jwt"]["claims"]
Claims == {[present |-> FALSE, cognito |-> None, username |-> None]}
          \cup {[present |-> TRUE, cognito |-> c, username |-> u] :
                    c \in OptUser, u \in {None} \cup {Some(n) : n \in UserNames}}

Handlers == {"delete-document", "delete-s3"}

DelRequests == [handler : Handlers, claims : Claims, body : Bodies]

NoDelReq == [handler |-> "none",
             claims |-> [present |-> FALSE, cognito |-> None, username |-> None],
             body |-> [kind |-> "missing", key |-> [t |-> "absent", n |-> 0, s |-> <<>>]]]

NoFail == [primary |-> FALSE, metadata |-> FALSE, invoke |-> FALSE]
DelEnvs == [primary : BOOLEAN, metadata : BOOLEAN, invoke : BOOLEAN]

\* USER_DOCUMENTS_BUCKET, BUCKET (delete-s3 only), SYNC_KB_FUNCTION_NAME
DelCfgs == [userBucket : BOOLEAN, legacyBucket : BOOLEAN, syncFn : BOOLEAN]

MetadataSuffix == <<".metadata.json">>
MetadataKey(key) == key \o MetadataSuffix

InitialObjects == {<<"a", "/", "f">>, MetadataKey(<<"a", "/", "f">>), <<"a", "f", "/">>}

\* user_id = claims.get('cognito:username') or claims.get('username')
UserIdIgnoringUsernameClaim(claims) == claims.cognito
UserId(claims) == PyOr(claims.cognito, claims.username)

\* key.startswith(f"{user_id}/")
OwnsKeyWithoutSeparator(key, user_id) == StartsWith(key, user_id)
OwnsKey(key, user_id) == StartsWith(key, user_id \o <<"/">>)

\* The first try block of lambda_handler: 0 when the request passes the
\* ownership check, otherwise the status code of the early return.
ValidateDelete(req) ==
    IF ~req.claims.present THEN 500                       \* KeyError
    ELSE IF ~Truthy(UserId(req.claims)) THEN 401
    ELSE IF req.body.kind # "dict" THEN 500               \* KeyError, JSONDecodeError, AttributeError
    ELSE LET kv == req.body.key
             user_id == UserId(req.claims)[1]
         IN  IF kv.t \in {"absent", "null"} THEN 403      \* not key
             ELSE IF kv.t = "num"
                  THEN IF kv.n = 0 THEN 403 ELSE 500      \* not 0; int has no startswith
             ELSE IF kv.s = <<>> \/ ~OwnsKey(kv.s, user_id) THEN 403
             ELSE 0

\* bucket name lookup: BUCKET at module load (delete-document),
\* USER_DOCUMENTS_BUCKET or BUCKET inside the handler (delete-s3)
BucketResolved(handler, cfg) ==
    IF handler = "delete-document" THEN cfg.userBucket
    ELSE cfg.userBucket \/ cfg.legacyBucket

\* Payload of the asynchronous invocation of the sync function
SyncPayload(handler) ==
    IF handler = "delete-document" THEN "user-documents" ELSE ""

\* the status of the second try block: only an exception of the primary
\* delete reaches its except clause; the metadata delete and the invoke
\* have handlers of their own
DeleteStatusAnyFailure(e) == IF e.primary \/ e.metadata \/ e.invoke THEN 502 ELSE 200
DeleteStatus(e) == IF e.primary THEN 502 ELSE 200

DelInit ==
    /\ delPc = "idle"
    /\ delReq = NoDelReq
    /\ delResp = 0
    /\ delEnv = NoFail
    /\ delCfg \in DelCfgs
    /\ bucket = InitialObjects
    /\ delCalls = <<>>
    /\ invokeCalls = <<>>

\* an event arrives at one of the two deletion handlers
DelReceive ==
    /\ delPc = "idle"
    /\ \E r \in DelRequests : delReq' = r
    /\ delPc' = "pending"
    /\ UNCHANGED <<delResp, delEnv, delCfg, bucket, delCalls, invokeCalls>>
    /\ UNCHANGED notDel

\* lambda_handler runs on the pending event
DelHandle ==
    /\ delPc = "pending"
    /\ delPc' = "done"
    /\ LET v == ValidateDelete(delReq)
           key == delReq.body.key.s
       IN  IF v # 0
           THEN /\ delResp' = v
                /\ UNCHANGED <<delEnv, bucket, delCalls, invokeCalls>>
           ELSE IF ~BucketResolved(delReq.handler, delCfg)
           THEN /\ delResp' = 502
                /\ UNCHANGED <<delEnv, bucket, delCalls, invokeCalls>>
           ELSE \E e \in DelEnvs :
                   IF e.primary
                   THEN /\ delEnv' = [e EXCEPT !.metadata = FALSE, !.invoke = FALSE]
                        /\ delCalls' = <<key>>
                        /\ delResp' = DeleteStatus(e)
                        /\ UNCHANGED <<bucket, invokeCalls>>
                   ELSE /\ delEnv' = [e EXCEPT !.invoke = e.invoke /\ delCfg.syncFn]
                        /\ delCalls' = <<key, MetadataKey(key)>>
                        /\ bucket' = IF e.metadata
                                     THEN bucket \ {key}
                                     ELSE bucket \ {key, MetadataKey(key)}
                        /\ invokeCalls' = IF delCfg.syncFn
                                          THEN <<SyncPayload(delReq.handler)>>
                                          ELSE <<>>
                        /\ delResp' = DeleteStatus(e)
    /\ UNCHANGED <<delReq, delCfg>>
    /\ UNCHANGED notDel

\* the response is returned and the adapter waits for the next event
DelReturn ==
    /\ delPc = "done"
    /\ delPc' = "idle"
    /\ delReq' = NoDelReq
    /\ delResp' = 0
    /\ delEnv' = NoFail
    /\ delCalls' = <<>>
    /\ invokeCalls' = <<>>
    /\ UNCHANGED <<delCfg, bucket>>
    /\ UNCHANGED notDel

DelNext == DelReceive \/ DelHandle \/ DelReturn

----------------------------------------------------------------------------
(* Claims about the document deletion adapters *)

\* the identity the request's auth claims carry, None when they carry none
ClaimedIdentity(req) ==
    IF ~req.claims.present THEN None
    ELSE IF Truthy(req.claims.cognito) THEN req.claims.cognito
    ELSE req.claims.username

\* the body's KEY is absent, or is not a string that starts with "<identity>/"
KeyNotPrefixed(req) ==
    \/ req.body.kind # "dict"
    \/ req.body.key.t # "str"
    \/ ~Truthy(ClaimedIdentity(req))
    \/ ~StartsWith(req.body.key.s, ClaimedIdentity(req)[1] \o <<"/">>)

\* C1: an invocation of either deletion handler whose KEY is absent or is not
\* prefixed by "<caller identity>/" makes no object-storage delete call and
\* does not invoke the sync adapter.
C1_NoDeleteForForeignKey ==
    (delPc = "done" /\ KeyNotPrefixed(delReq))
        => (delCalls = <<>> /\ invokeCalls = <<>> /\ delResp # 200)

\* C1 witness: a caller with an identity asked for a key that starts with the
\* identity but not with "<identity>/", and was answered.
C1_Witness ==
    /\ delPc = "done"
    /\ Truthy(ClaimedIdentity(delReq))
    /\ delReq.body.kind = "dict" /\ delReq.body.key.t = "str"
    /\ StartsWith(delReq.body.key.s, ClaimedIdentity(delReq)[1])
    /\ Len(delReq.body.key.s) > Len(ClaimedIdentity(delReq)[1])
    /\ KeyNotPrefixed(delReq)
    /\ delReq.body.key.s \in bucket

\* C2 as stated: every request whose KEY is not prefixed by the caller's
\* identity is answered with 403, whatever else it contains.
C2_Always403 ==
    (delPc = "done" /\ KeyNotPrefixed(delReq)) => delResp = 403

\* the status each kind of rejected request is answered with
RejectionStatus(req) ==
    IF ~req.claims.present THEN 500
    ELSE IF ~Truthy(ClaimedIdentity(req)) THEN 401
    ELSE IF req.body.kind # "dict" THEN 500
    ELSE IF req.body.key.t = "num" /\ req.body.key.n # 0 THEN 500
    ELSE 403

\* C2 amended: a request whose KEY is not prefixed by the caller's identity is
\* answered 403 when the caller has an identity and the body is a JSON object
\* (KEY absent, null, empty, 0 or a string without the prefix), 401 when the
\* claims carry no identity, and 500 when the claims are missing, the body is
\* missing or not a JSON object, or KEY is a non-zero number.
C2_RejectionStatus ==
    (delPc = "done" /\ KeyNotPrefixed(delReq)) => delResp = RejectionStatus(delReq)

\* C2 witness: the identity comes from the 'username' claim alone and the key
\* belongs to somebody else; the answer is 403.
C2_Witness ==
    /\ delPc = "done"
    /\ delReq.claims.present /\ delReq.claims.cognito = None
    /\ Truthy(delReq.claims.username)
    /\ delReq.body.kind = "dict" /\ delReq.body.key.t = "str"
    /\ delReq.body.key.s # <<>>
    /\ KeyNotPrefixed(delReq)
    /\ delResp = 403

\* the handler called delete on the primary object and the call returned
PrimaryDeleted == delPc = "done" /\ delCalls # <<>> /\ ~delEnv.primary

\* C21: in the document deletion adapter, whenever the primary object
\* deletion succeeds the response is 200, whether or not the sidecar
\* metadata deletion fails and whether or not the sync trigger fails.
C21_PrimaryDeletedIs200 ==
    PrimaryDeleted => (delResp = 200 /\ delReq.body.key.s \notin bucket)

\* C21 witness: the primary delete succeeded, the metadata delete and the
\* invocation of the sync function both raised, and the answer is 200.
C21_Witness ==
    /\ PrimaryDeleted
    /\ delEnv.metadata /\ delEnv.invoke
    /\ MetadataKey(delReq.body.key.s) \in bucket
    /\ invokeCalls # <<>>
    /\ delResp = 200

----------------------------------------------------------------------------
(* Knowledge-base sync adapter: direct invocations *)

\* source_index (SOURCE) and user_documents_source (USER_DOCUMENTS_SOURCE)
DataSources == {"nofo", "user-documents"}

\* event.get('syncSource', '')
SyncSources == {"user-documents", "nofo", ""}

Invocations == 1..MaxInvocations

\* source: SOURCE is a non-empty id; userDocs: USER_DOCUMENTS_SOURCE is one
SyncCfgs == [source : BOOLEAN, userDocs : BOOLEAN]

Configured(cfg, ds) == IF ds = "nofo" THEN cfg.source ELSE cfg.userDocs

IdleInvocation ==
    [pc |-> "idle", src |-> "", path |-> "none", plan |-> <<>>, syncing |-> <<>>,
     res |-> [ds \in DataSources |-> FALSE], toStart |-> <<>>, started |-> {},
     saw |-> {}, out |-> "none"]

\* client.list_ingestion_jobs with the filter STATUS EQ status
ListIngestionJobs(ds, status) == SelectSeq(jobs[ds], LAMBDA j : j = status)

\* the ingestion service refuses a second job for a data source that runs one
HasRunningJob(ds) == \E k \in 1..Len(jobs[ds]) : jobs[ds][k] \in {"STARTING", "IN_PROGRESS"}

\* check_running: hist = starting + syncing; return len(hist) > 0
CheckRunningIgnoringStarting(starting, syncing) == Len(syncing) > 0
CheckRunningResult(starting, syncing) == Len(starting \o syncing) > 0

\* check_any_running: nofo_running or user_docs_running
AnyRunningBoth(nofo_running, user_docs_running) == nofo_running /\ user_docs_running
AnyRunning(nofo_running, user_docs_running) == nofo_running \/ user_docs_running

\* the branch of lambda_handler a direct invocation takes
Path(src, cfg) ==
    IF src = "user-documents" /\ cfg.userDocs THEN "user-documents"
    ELSE IF src = "nofo" /\ cfg.source THEN "nofo"
    ELSE "all"

\* the data sources whose jobs the branch lists, in call order
ChecksOf(path, cfg) ==
    IF path # "all" THEN <<path>>
    ELSE (IF cfg.source THEN <<"nofo">> ELSE <<>>)
         \o (IF cfg.userDocs THEN <<"user-documents">> ELSE <<>>)

\* the data sources the branch starts a job for, in call order
StartsOf(path, cfg) ==
    IF path # "all" THEN <<path>>
    ELSE (IF cfg.userDocs THEN <<"user-documents">> ELSE <<>>)
         \o (IF cfg.source THEN <<"nofo">> ELSE <<>>)

\* the "already in progress" test of the branch, on the check results
AlreadyRunning(path, res) ==
    IF path = "all" THEN AnyRunning(res["nofo"], res["user-documents"])
    ELSE res[path]

\* where the handler goes once the checks of its branch are made
AfterChecks(r) ==
    IF r.plan # <<>> THEN [r EXCEPT !.pc = "check_syncing"]
    ELSE IF AlreadyRunning(r.path, r.res) THEN [r EXCEPT !.pc = "done", !.out = "skipped"]
    ELSE IF r.toStart = <<>> THEN [r EXCEPT !.pc = "done", !.out = "completed"]
    ELSE [r EXCEPT !.pc = "start"]

\* where the handler goes after a start_ingestion_job call returned or was
\* caught
AfterStart(r) ==
    IF Tail(r.toStart) = <<>>
    THEN [r EXCEPT !.toStart = <<>>, !.pc = "done", !.out = "completed"]
    ELSE [r EXCEPT !.toStart = Tail(r.toStart)]

\* only the branch without syncSource wraps start_ingestion_job in
\* try/except ConflictException
CatchesConflict(path) == path = "all"

SyncInit ==
    /\ syncCfg \in SyncCfgs
    /\ jobs \in [DataSources -> {<<>>, <<"IN_PROGRESS">>}]
    /\ inv = [i \in Invocations |-> IdleInvocation]
    /\ startLog = {}

\* lambda_handler is entered with no rawPath
SyncInvoke(i) ==
    /\ inv[i].pc = "idle"
    /\ \E src \in SyncSources :
          LET path == Path(src, syncCfg)
              r == [IdleInvocation EXCEPT !.src = src, !.path = path,
                                          !.plan = ChecksOf(path, syncCfg),
                                          !.toStart = StartsOf(path, syncCfg)]
          IN  inv' = [inv EXCEPT ![i] = AfterChecks(r)]
    /\ UNCHANGED <<syncCfg, jobs, startLog>>
    /\ UNCHANGED notSync

\* check_running: the list_ingestion_jobs call for IN_PROGRESS
SyncCheckSyncing(i) ==
    /\ inv[i].pc = "check_syncing"
    /\ inv' = [inv EXCEPT ![i].syncing = ListIngestionJobs(Head(inv[i].plan), "IN_PROGRESS"),
                          ![i].pc = "check_starting"]
    /\ UNCHANGED <<syncCfg, jobs, startLog>>
    /\ UNCHANGED notSync

\* check_running: the list_ingestion_jobs call for STARTING, and the return
SyncCheckStarting(i) ==
    /\ inv[i].pc = "check_starting"
    /\ LET r == inv[i]
           ds == Head(r.plan)
           starting == ListIngestionJobs(ds, "STARTING")
           seen == IF starting # <<>> \/ r.syncing # <<>> THEN {ds} ELSE {}
       IN  inv' = [inv EXCEPT ![i] =
                      AfterChecks([r EXCEPT !.res[ds] = CheckRunningResult(starting, r.syncing),
                                            !.saw = r.saw \cup seen,
                                            !.syncing = <<>>,
                                            !.plan = Tail(r.plan)])]
    /\ UNCHANGED <<syncCfg, jobs, startLog>>
    /\ UNCHANGED notSync

\* client.start_ingestion_job for the next data source of the branch
SyncStart(i) ==
    /\ inv[i].pc = "start"
    /\ LET r == inv[i]
           ds == Head(r.toStart)
           conflict == HasRunningJob(ds)
       IN  /\ startLog' = startLog \cup {[inv |-> i, ds |-> ds, running |-> conflict]}
           /\ IF ~conflict
              THEN /\ jobs' = [jobs EXCEPT ![ds] = Append(@, "STARTING")]
                   /\ inv' = [inv EXCEPT ![i] = AfterStart([r EXCEPT !.started = r.started \cup {ds}])]
              ELSE /\ UNCHANGED jobs
                   /\ inv' = [inv EXCEPT ![i] =
                                 IF CatchesConflict(r.path) THEN AfterStart(r)
                                 ELSE [r EXCEPT !.pc = "raised", !.out = "raised"]]
    /\ UNCHANGED syncCfg
    /\ UNCHANGED notSync

\* the ingestion service moves a job on: STARTING, IN_PROGRESS, COMPLETE
JobAdvance(ds, k) ==
    /\ k \in 1..Len(jobs[ds])
    /\ jobs[ds][k] \in {"STARTING", "IN_PROGRESS"}
    /\ jobs' = [jobs EXCEPT ![ds][k] = IF @ = "STARTING" THEN "IN_PROGRESS" ELSE "COMPLETE"]
    /\ UNCHANGED <<syncCfg, inv, startLog>>
    /\ UNCHANGED notSync

SyncNext ==
    \/ \E i \in Invocations : SyncInvoke(i)
    \/ \E i \in Invocations : SyncCheckSyncing(i)
    \/ \E i \in Invocations : SyncCheckStarting(i)
    \/ \E i \in Invocations : SyncStart(i)
    \/ \E ds \in DataSources, k \in 1..(MaxInvocations + 1) : JobAdvance(ds, k)

----------------------------------------------------------------------------
(* Claims about the sync adapter *)

Finished(i) == inv[i].pc \in {"done", "raised"}

\* the start_ingestion_job calls invocation i made
StartCallsOf(i) == {c \in startLog : c.inv = i}

\* C3: a direct invocation whose check_running saw an IN_PROGRESS or STARTING
\* job returns without calling start_ingestion_job and without raising, so of
\* two invocations for one data source, the second observing the running job,
\* at most one has started a job.
C3_ObserverSkips ==
    /\ \A i \in Invocations :
          (Finished(i) /\ inv[i].saw # {})
              => (inv[i].out = "skipped" /\ StartCallsOf(i) = {} /\ inv[i].started = {})
    /\ \A i, j \in Invocations : \A ds \in DataSources :
          (i # j /\ Finished(i) /\ Finished(j) /\ ds \in inv[j].saw)
              => ~(ds \in inv[i].started /\ ds \in inv[j].started)

\* C3 witness: two invocations for the user documents source; one started a
\* job, the other saw that job and skipped.
C3_Witness ==
    \E i, j \in Invocations :
        /\ i # j
        /\ inv[i].path = "user-documents" /\ inv[j].path = "user-documents"
        /\ inv[i].pc = "done" /\ "user-documents" \in inv[i].started
        /\ inv[j].pc = "done" /\ inv[j].out = "skipped"
        /\ "user-documents" \in inv[j].saw

\* C4 as stated: start_ingestion_job is never called for a data source while
\* a job of that data source is IN_PROGRESS or STARTING.
C4_NeverStartWhileRunning == \A c \in startLog : ~c.running

\* C4 amended: start_ingestion_job is called only by an invocation whose own
\* preceding check_running calls listed no IN_PROGRESS and no STARTING job,
\* for the data source it starts and, without syncSource, for every
\* configured data source; a job may have appeared since the check.
C4_StartOnlyAfterClearCheck ==
    \A i \in Invocations :
        StartCallsOf(i) # {} =>
            /\ inv[i].saw = {}
            /\ \A c \in StartCallsOf(i) : Configured(syncCfg, c.ds)
            /\ inv[i].path # "all" => \A c \in StartCallsOf(i) : c.ds = inv[i].path

\* C4 witness: an invocation without syncSource checked both sources, found
\* none running, and started a job for each.
C4_Witness ==
    \E i \in Invocations :
        /\ inv[i].path = "all" /\ inv[i].pc = "done"
        /\ inv[i].started = DataSources
        /\ \E j \in Invocations : j # i /\ inv[j].out = "skipped"

\* C5: on every direct-invocation path a conflict rejection of
\* start_ingestion_job is caught and the invocation completes normally.
C5_ConflictIsSkipped == \A i \in Invocations : inv[i].pc # "raised"

----------------------------------------------------------------------------
(* Draft store adapter *)

\* A member of a JSON object or an attribute of a table row: absent, null
\* (None) or a value. v holds a value of the member's type in every case.
Absent(dummy) == [t |-> "absent", v |-> dummy]
Null(dummy) == [t |-> "null", v |-> dummy]
Val(v) == [t |-> "val", v |-> v]

\* dict.get(name, default), with default already a member
Get(m, default) == IF m.t = "absent" THEN default ELSE m

IsNone(x) == x.t = "null"

\* str.strip(): leading and trailing blanks removed
RECURSIVE LStrip(_)
LStrip(s) == IF s # <<>> /\ Head(s) = " " THEN LStrip(Tail(s)) ELSE s
RECURSIVE RStrip(_)
RStrip(s) == IF s # <<>> /\ s[Len(s)] = " " THEN RStrip(SubSeq(s, 1, Len(s) - 1)) ELSE s
StripLeftOnly(s) == LStrip(s)
Strip(s) == RStrip(LStrip(s))

\* f"Draft on {str(datetime.now())}"
DefaultTitle == <<"Draft on now">>

\* dicts are sets of <<name, text>> pairs
D1 == {<<"summary", "x">>}

TitleStrings == SeqsUpTo({" ", "t"}, MaxTitleLen)
TitleMembers == {Absent(<<>>), Null(<<>>)} \cup {Val(x) : x \in TitleStrings}
DocMembers == {Absent(""), Val("d1")}
SectionsMembers == {Absent({}), Null({}), Val({}), Val(D1)}
DictMembers == {Absent({}), Val(D1)}
LastModifiedMembers == {Absent(0), Val(1)}

DraftUsers == {"u1"}
DraftSessions == {"s1"}
DraftKeys == DraftUsers \X DraftSessions

ContentOps == {"add_draft", "update_draft"}
KeyOps == {"get_draft", "delete_draft"}

NoContent ==
    [title |-> Absent(<<>>), document_identifier |-> Absent(""),
     sections |-> Absent({}), project_basics |-> Absent({}),
     questionnaire |-> Absent({}), last_modified |-> Absent(0)]

DraftRequest(kind, op, user_id, session_id, c) ==
    [kind |-> kind, operation |-> op, user_id |-> user_id, session_id |-> session_id,
     title |-> c.title, document_identifier |-> c.document_identifier,
     sections |-> c.sections, project_basics |-> c.project_basics,
     questionnaire |-> c.questionnaire, last_modified |-> c.last_modified]

Contents ==
    [title : TitleMembers, document_identifier : DocMembers,
     sections : SectionsMembers, project_basics : DictMembers,
     questionnaire : DictMembers, last_modified : LastModifiedMembers]

\* event['body'] of the draft handler
DraftRequests ==
    {DraftRequest("dict", op, Val("u1"), Val("s1"), c) : op \in ContentOps, c \in Contents}
    \cup {DraftRequest("dict", op, Val("u1"), Val("s1"), NoContent) : op \in KeyOps}
    \cup {DraftRequest("dict", op, u, x, NoContent) :
              op \in ContentOps \cup KeyOps,
              u \in {Absent(""), Val("")}, x \in {Absent(""), Val("s1")}}
    \cup {DraftRequest("dict", op, Val("u1"), Val("s1"), NoContent) :
              op \in {"", "bogus"}}
    \cup {DraftRequest(k, "get_draft", Val("u1"), Val("s1"), NoContent) :
              k \in {"badjson", "nondict"}}

NoDraftRequest == DraftRequest("none", "", Absent(""), Absent(""), NoContent)

\* a row, or the body of a response, with no attribute
NoAttributes ==
    [title |-> Absent(<<>>), document_identifier |-> Absent(""),
     sections |-> Absent({}), project_basics |-> Absent({}),
     questionnaire |-> Absent({}), last_modified |-> Absent(0),
     status |-> Absent("")]

NoRow == <<>>

NoDraftResponse == [status |-> 0, item |-> NoAttributes, deleted |-> "none"]
Status(code) == [status |-> code, item |-> NoAttributes, deleted |-> "none"]

\* the codes of the ClientError a table call may raise
Faults == {"none", "ResourceNotFoundException", "InternalServerError"}

\* not all([session_id, user_id])
IdsGiven(req) ==
    /\ req.user_id.t = "val" /\ req.user_id.v # ""
    /\ req.session_id.t = "val" /\ req.session_id.v # ""

KeyOf(req) == <<req.user_id.v, req.session_id.v>>

\* the arguments lambda_handler reads from the body with data.get
ArgSections(req) == Get(req.sections, Val({}))
ArgTitle(req) == Get(req.title, Val(DefaultTitle))
ArgDocumentIdentifier(req) == Get(req.document_identifier, Null(""))
ArgProjectBasics(req) == Get(req.project_basics, Null({}))
ArgQuestionnaire(req) == Get(req.questionnaire, Null({}))
ArgLastModified(req) == Get(req.last_modified, Null(0))

\* title.strip() if title else ""
StoredTitle(title) ==
    IF IsNone(title) \/ title.v = <<>> THEN <<>> ELSE Strip(title.v)

\* d or {}
DictOrEmpty(d) == IF IsNone(d) THEN {} ELSE d.v

\* str(datetime.now()) whatever the caller passed
LastModifiedAlwaysNow(last_modified, clock) == clock

\* last_modified or str(datetime.now())
LastModifiedOrNow(last_modified, clock) ==
    IF IsNone(last_modified) THEN clock ELSE last_modified.v

\* add_draft: the item handed to table.put_item
AddItem(sections, title, document_identifier, project_basics, questionnaire, last_modified, clock) ==
    [title |-> Val(StoredTitle(title)),
     document_identifier |-> document_identifier,
     sections |-> Val(DictOrEmpty(sections)),
     project_basics |-> Val(DictOrEmpty(project_basics)),
     questionnaire |-> Val(DictOrEmpty(questionnaire)),
     last_modified |-> Val(LastModifiedOrNow(last_modified, clock)),
     status |-> Val("draft")]

\* add_draft: response_item
AddResponseItem(item) ==
    [NoAttributes EXCEPT !.title = item.title,
                         !.document_identifier = item.document_identifier,
                         !.last_modified = item.last_modified]

\* update_draft: the row after table.update_item with the SET expression
\* built from the arguments that are not None; a missing row is created
UpdateItem(row, sections, title, document_identifier, project_basics, questionnaire, last_modified, clock) ==
    LET old == IF row = NoRow THEN NoAttributes ELSE row[1]
    IN  [old EXCEPT
            !.sections = IF IsNone(sections) THEN @ ELSE sections,
            !.title = IF IsNone(title) THEN @ ELSE Val(StoredTitle(title)),
            !.document_identifier =
                IF IsNone(document_identifier) THEN @ ELSE document_identifier,
            !.project_basics = IF IsNone(project_basics) THEN @ ELSE project_basics,
            !.questionnaire = IF IsNone(questionnaire) THEN @ ELSE questionnaire,
            !.last_modified = Val(LastModifiedOrNow(last_modified, clock))]

\* updated_item.get(name, default)
AttrOr(m, default) == IF m.t = "absent" THEN Val(default) ELSE m

\* update_draft: response_item
UpdateResponseItem(item) ==
    [NoAttributes EXCEPT
        !.title = AttrOr(item.title, <<>>),
        !.document_identifier = AttrOr(item.document_identifier, ""),
        !.sections = AttrOr(item.sections, {}),
        !.project_basics = AttrOr(item.project_basics, {}),
        !.questionnaire = AttrOr(item.questionnaire, {}),
        !.last_modified = AttrOr(item.last_modified, 0)]

\* the status of the except ClientError branches of get, update and delete
ClientErrorStatus(fault) ==
    IF fault = "ResourceNotFoundException" THEN 404 ELSE 500

\* add_draft
AddDraft(req, fault) ==
    LET item == AddItem(ArgSections(req), ArgTitle(req), ArgDocumentIdentifier(req),
                        ArgProjectBasics(req), ArgQuestionnaire(req),
                        ArgLastModified(req), now)
    IN  IF fault # "none"
        THEN /\ dResp' = Status(500)
             /\ UNCHANGED drafts
        ELSE /\ drafts' = [drafts EXCEPT ![KeyOf(req)] = <<item>>]
             /\ dResp' = [status |-> 200, item |-> AddResponseItem(item), deleted |-> "none"]

\* get_draft: body is json.dumps(response.get("Item", {}))
GetDraft(req, fault) ==
    /\ UNCHANGED drafts
    /\ dResp' = IF fault # "none" THEN Status(ClientErrorStatus(fault))
                ELSE [status |-> 200,
                      item |-> IF drafts[KeyOf(req)] = NoRow THEN NoAttributes
                               ELSE drafts[KeyOf(req)][1],
                      deleted |-> "none"]

\* update_draft
UpdateDraft(req, fault) ==
    LET item == UpdateItem(drafts[KeyOf(req)], ArgSections(req), ArgTitle(req),
                           ArgDocumentIdentifier(req), ArgProjectBasics(req),
                           ArgQuestionnaire(req), ArgLastModified(req), now)
    IN  IF fault # "none"
        THEN /\ dResp' = Status(ClientErrorStatus(fault))
             /\ UNCHANGED drafts
        ELSE /\ drafts' = [drafts EXCEPT ![KeyOf(req)] = <<item>>]
             /\ dResp' = [status |-> 200, item |-> UpdateResponseItem(item), deleted |-> "none"]

\* table.delete_item succeeds whether or not the key has a row
DeleteItem(table, key) == [table EXCEPT ![key] = NoRow]

\* delete_draft
DeleteDraft(req, fault) ==
    IF fault # "none"
    THEN /\ dResp' = [Status(ClientErrorStatus(fault)) EXCEPT !.deleted = "false"]
         /\ UNCHANGED drafts
    ELSE /\ drafts' = DeleteItem(drafts, KeyOf(req))
         /\ dResp' = [Status(200) EXCEPT !.deleted = "true"]

DraftInit ==
    /\ drafts = [k \in DraftKeys |-> NoRow]
    /\ now = 1
    /\ dPc = "idle"
    /\ dReq = NoDraftRequest
    /\ dFault = "none"
    /\ dPrev = NoRow
    /\ dResp = NoDraftResponse

\* lambda_handler of the draft adapter, on one event
DraftHandle ==
    /\ dPc = "idle"
    /\ now < MaxClock
    /\ \E req \in DraftRequests :
          /\ dReq' = req
          /\ IF req.kind = "badjson"
             THEN dResp' = Status(400) /\ dFault' = "none" /\ UNCHANGED drafts
             ELSE IF req.kind = "nondict"
             THEN dResp' = Status(500) /\ dFault' = "none" /\ UNCHANGED drafts
             ELSE IF req.operation = ""
             THEN dResp' = Status(400) /\ dFault' = "none" /\ UNCHANGED drafts
             ELSE IF req.operation \notin ContentOps \cup KeyOps
             THEN dResp' = Status(400) /\ dFault' = "none" /\ UNCHANGED drafts
             ELSE IF ~IdsGiven(req)
             THEN dResp' = Status(400) /\ dFault' = "none" /\ UNCHANGED drafts
             ELSE \E fault \in Faults :
                     /\ dFault' = fault
                     /\ CASE req.operation = "add_draft" -> AddDraft(req, fault)
                          [] req.operation = "get_draft" -> GetDraft(req, fault)
                          [] req.operation = "update_draft" -> UpdateDraft(req, fault)
                          [] req.operation = "delete_draft" -> DeleteDraft(req, fault)
          /\ dPrev' = IF IdsGiven(req) /\ req.kind = "dict" THEN drafts[KeyOf(req)] ELSE NoRow
    /\ dPc' = "done"
    /\ now' = now + 1
    /\ UNCHANGED notDraft

\* the response is returned and the adapter waits for the next event
DraftReturn ==
    /\ dPc = "done"
    /\ dPc' = "idle"
    /\ dReq' = NoDraftRequest
    /\ dFault' = "none"
    /\ dPrev' = NoRow
    /\ dResp' = NoDraftResponse
    /\ UNCHANGED <<drafts, now>>
    /\ UNCHANGED notDraft

DraftNext == DraftHandle \/ DraftReturn

----------------------------------------------------------------------------
(* Claims about the draft store adapter *)

DraftDone(op) ==
    /\ dPc = "done" /\ dReq.kind = "dict" /\ dReq.operation = op /\ IdsGiven(dReq)

StoredRow == drafts[KeyOf(dReq)][1]

\* get_draft answers with the stored row and leaves it as it was
GetReturnsStoredRow ==
    (DraftDone("get_draft") /\ dResp.status = 200 /\ dPrev # NoRow)
        => (dResp.item = dPrev[1] /\ drafts[KeyOf(dReq)] = dPrev)

ContentFields == {"title", "document_identifier", "sections", "project_basics", "questionnaire"}

IsTrimmed(s, t) ==
    \E i, j \in 0..Len(s) :
        /\ i + j <= Len(s)
        /\ t = SubSeq(s, i + 1, Len(s) - j)
        /\ \A k \in 1..i : s[k] = " "
        /\ \A k \in (Len(s) - j + 1)..Len(s) : s[k] = " "
        /\ t # <<>> => (t[1] # " " /\ t[Len(t)] # " ")

\* a submitted mapping as stored: the empty mapping when absent or null
SubmittedDict(m) == IF m.t = "val" THEN m.v ELSE {}

C7_UnsuppliedFieldsUnchanged ==
    (DraftDone("update_draft") /\ dResp.status = 200 /\ dPrev # NoRow)
        => \A f \in ContentFields : dReq[f].t = "absent" => StoredRow[f] = dPrev[1][f]

\* C10 (draft adapter): delete of a key that has no row answers 404 with
\* deleted = false.
C10_DeleteMissingIs404 ==
    (DraftDone("delete_draft") /\ dFault = "none" /\ dPrev = NoRow)
        => (dResp.status = 404 /\ dResp.deleted = "false")

\* a successful add_draft or update_draft over a row that existed
MutatingWriteDone ==
    /\ DraftDone("add_draft") \/ DraftDone("update_draft")
    /\ dResp.status = 200
    /\ dPrev # NoRow

\* the value of datetime.now() the handler that has just finished read
ClockOfWrite == now - 1

\* C17 as stated: every successful mutating write of a draft (add_draft over
\* an existing row, or update_draft) stores a last-modified value strictly
\* later than the value stored before the write, also when the request
\* body carries its own last_modified field.
C17_StrictlyLater ==
    MutatingWriteDone => StoredRow.last_modified.v > dPrev[1].last_modified.v

\* C17 amended: every successful add_draft or update_draft stores the
\* last_modified of the request body when the body carries one, and the
\* time of the write otherwise; the stored value is later than the one
\* before the write only when the value chosen this way is.
C17_StoresGivenOrClock ==
    ((DraftDone("add_draft") \/ DraftDone("update_draft")) /\ dResp.status = 200)
        => StoredRow.last_modified =
              (IF dReq.last_modified.t = "val"
               THEN dReq.last_modified ELSE Val(ClockOfWrite))

\* C17 witness: update_draft over an existing row with its own last_modified
\* stored that value, which is not later than the one stored before.
C17_Witness ==
    /\ DraftDone("update_draft") /\ dResp.status = 200 /\ dPrev # NoRow
    /\ dReq.last_modified = Val(1)
    /\ ClockOfWrite > 1
    /\ StoredRow.last_modified = Val(1)
    /\ StoredRow.last_modified.v <= dPrev[1].last_modified.v

\* C26 (draft adapter): get_draft and update_draft of a (user, session)
\* pair for which no row is stored, with a backend that raises nothing,
\* return status 404 and do not create a row.
C26_MissingRowIs404 ==
    ((DraftDone("get_draft") \/ DraftDone("update_draft")) /\ dFault = "none" /\ dPrev = NoRow)
        => (dResp.status = 404 /\ drafts[KeyOf(dReq)] = NoRow)

\* the values of DraftItem.status
AllowedStatuses == {"project_basics", "questionnaire", "editing_sections"}

\* C30: after any sequence of draft operations, every stored draft row has
\* a status that is one of 'project_basics', 'questionnaire' and
\* 'editing_sections'.
C30_StoredStatusAllowed ==
    \A k \in DraftKeys :
        drafts[k] # NoRow
            => (drafts[k][1].status.t = "val" /\ drafts[k][1].status.v \in AllowedStatuses)

----------------------------------------------------------------------------
(* list-by-owner: list_drafts_by_user_id and list_sessions_by_user_id *)

\* limit=15 of both list functions; limit=100 of the list_all operations
DefaultLimit == 15
ListAllLimit == 100

Adapters == {"draft", "session"}

ListOps == {"list", "list_all"}

\* document_identifier of the request body
ListDocInputs == {None, Some("d1"), Some("undefined")}

ListRequests == [operation : ListOps, document_identifier : ListDocInputs]

NoListRequest == [operation |-> "none", document_identifier |-> None]

\* the limit each operation of lambda_handler passes
LimitOf(op) == IF op = "list_all" THEN ListAllLimit ELSE DefaultLimit

\* the draft handler turns 'undefined' into None; the session handler passes
\* document_identifier on as it is
DocFilter(adapter, doc) ==
    IF adapter = "draft" /\ doc = Some("undefined") THEN None ELSE doc

\* table sizes around the limits, and small ones
TableSizes ==
    (0..ListSlack)
    \cup ((DefaultLimit - ListSlack)..(DefaultLimit + ListSlack))
    \cup ((ListAllLimit - ListSlack)..(ListAllLimit + ListSlack))

\* ties: pairs of rows share a last-modified value;
\* docs: which rows carry the document identifier "d1"
TableShapes == [ties : BOOLEAN, docs : {"all", "alternate", "none"}]

\* the i-th row of an index of n rows; sort_key is last_modified of a draft
\* and time_stamp of a session
IndexRow(i, n, shape) ==
    [session_id |-> i,
     title |-> IF i % 2 = 0 THEN <<"t">> ELSE <<" ", "t">>,
     document_identifier |->
         IF shape.docs = "all" \/ (shape.docs = "alternate" /\ i % 2 = 1)
         THEN "d1" ELSE "d2",
     sort_key |-> IF shape.ties THEN ((n - i) \div 2) + 1 ELSE n - i + 1]

\* LastModifiedIndex / TimeIndex read with ScanIndexForward=False
IndexTables == {[i \in 1..n |-> IndexRow(i, n, shape)] : n \in TableSizes, shape \in TableShapes}

\* 'Limit': limit - len(items)
QueryLimitWhole(limit, items) == limit
QueryLimit(limit, items) == limit - Len(items)

\* FilterExpression: Attr('document_identifier').eq(document_identifier),
\* set only when document_identifier is truthy
HasFilter(filter) == filter # None /\ filter[1] # ""
Matches(row, filter) == HasFilter(filter) => row.document_identifier = filter[1]

\* the Items of one page: the rows from..to of the index that pass the filter
PageItems(from, to, filter) ==
    SelectSeq(SubSeq(index, from, to), LAMBDA row : Matches(row, filter))

\* sorted(items, key=last_modified, reverse=True): stable, newest first
RECURSIVE InsertDescending(_, _)
InsertDescending(acc, x) ==
    IF acc = <<>> THEN <<x>>
    ELSE IF acc[Len(acc)].sort_key >= x.sort_key THEN Append(acc, x)
    ELSE Append(InsertDescending(SubSeq(acc, 1, Len(acc) - 1), x), acc[Len(acc)])

RECURSIVE InsertAscending(_, _)
InsertAscending(acc, x) ==
    IF acc = <<>> THEN <<x>>
    ELSE IF acc[Len(acc)].sort_key <= x.sort_key THEN Append(acc, x)
    ELSE Append(InsertAscending(SubSeq(acc, 1, Len(acc) - 1), x), acc[Len(acc)])

RECURSIVE SortedAscending(_)
SortedAscending(items) ==
    IF items = <<>> THEN <<>>
    ELSE InsertAscending(SortedAscending(SubSeq(items, 1, Len(items) - 1)), items[Len(items)])

RECURSIVE SortedDescending(_)
SortedDescending(items) ==
    IF items = <<>> THEN <<>>
    ELSE InsertDescending(SortedDescending(SubSeq(items, 1, Len(items) - 1)), items[Len(items)])

\* the public shape of a listed draft
ProjectDraft(x) ==
    [sessionId |-> x.session_id, title |-> Strip(x.title),
     documentIdentifier |-> x.document_identifier, lastModified |-> x.sort_key]

\* the public shape of a listed session
ProjectSession(x) ==
    [time_stamp |-> x.sort_key, session_id |-> x.session_id, title |-> Strip(x.title),
     document_identifier |-> x.document_identifier]

Project(adapter, items) ==
    [k \in 1..Len(items) |->
        IF adapter = "draft" THEN ProjectDraft(items[k]) ELSE ProjectSession(items[k])]

\* `while len(items) < limit` and `if not last_evaluated_key: break`
LoopStopsAfterOnePage(more, items, limit) == FALSE
LoopContinues(more, items, limit) == more /\ Len(items) < limit

\* the ClientError codes of table.query and their status
ListFaults == {"ResourceNotFoundException", "ProvisionedThroughputExceededException",
               "ValidationException", "InternalServerError"}

ListErrorStatus(fault) ==
    CASE fault = "ResourceNotFoundException" -> 404
      [] fault = "ProvisionedThroughputExceededException" -> 429
      [] fault = "ValidationException" -> 400
      [] OTHER -> 500

NoListResponse == [status |-> 0, items |-> <<>>]

ListInit ==
    /\ lAdapter \in Adapters
    /\ index \in IndexTables
    /\ lPc = "idle"
    /\ lReq = NoListRequest
    /\ lLimit = 0
    /\ lFilter = None
    /\ lItems = <<>>
    /\ lKey = None
    /\ lResp = NoListResponse

\* lambda_handler calls the list function of its adapter
ListStart ==
    /\ lPc = "idle"
    /\ \E req \in ListRequests :
          /\ lReq' = req
          /\ lLimit' = LimitOf(req.operation)
          /\ lFilter' = DocFilter(lAdapter, req.document_identifier)
    /\ lPc' = "loop"
    /\ lItems' = <<>>
    /\ lKey' = None
    /\ lResp' = NoListResponse
    /\ UNCHANGED <<lAdapter, index>>
    /\ UNCHANGED notList

\* one pass of the while loop: table.query reads up to Limit rows after the
\* start key, fewer when the page fills up; LastEvaluatedKey is set while
\* rows remain, and may be set when the Limit is met on the last row
ListQuery ==
    /\ lPc = "loop"
    /\ LET from == IF lKey = None THEN 0 ELSE lKey[1]
           left == Len(index) - from
           limit == QueryLimit(lLimit, lItems)
       IN  \E k \in 0..left : \E more \in BOOLEAN :
              /\ k <= limit
              /\ k = 0 => left = 0
              /\ from + k < Len(index) => more
              /\ (more /\ from + k = Len(index)) => k = limit
              /\ lItems' = lItems \o PageItems(from + 1, from + k, lFilter)
              /\ lKey' = IF more THEN Some(from + k) ELSE None
              /\ lPc' = IF LoopContinues(more, lItems', lLimit) THEN "loop" ELSE "sort"
    /\ UNCHANGED <<lAdapter, index, lReq, lLimit, lFilter, lResp>>
    /\ UNCHANGED notList

\* table.query raises a ClientError
ListQueryFails ==
    /\ lPc = "loop"
    /\ \E fault \in ListFaults :
          lResp' = [status |-> ListErrorStatus(fault), items |-> <<>>]
    /\ lPc' = "done"
    /\ lItems' = <<>>
    /\ lKey' = None
    /\ UNCHANGED <<lAdapter, index, lReq, lLimit, lFilter>>
    /\ UNCHANGED notList

\* after the loop: sort, project and return
ListFinish ==
    /\ lPc = "sort"
    /\ lResp' = [status |-> 200, items |-> Project(lAdapter, SortedDescending(lItems))]
    /\ lPc' = "done"
    /\ UNCHANGED <<lAdapter, index, lReq, lLimit, lFilter, lItems, lKey>>
    /\ UNCHANGED notList

\* the response is returned and the adapter waits for the next event
ListReturn ==
    /\ lPc = "done"
    /\ lPc' = "idle"
    /\ lReq' = NoListRequest
    /\ lLimit' = 0
    /\ lFilter' = None
    /\ lItems' = <<>>
    /\ lKey' = None
    /\ lResp' = NoListResponse
    /\ UNCHANGED <<lAdapter, index>>
    /\ UNCHANGED notList

ListNext == ListStart \/ ListQuery \/ ListQueryFails \/ ListFinish \/ ListReturn

----------------------------------------------------------------------------
(* Claims about list-by-owner *)

Listed == lPc = "done" /\ lResp.status = 200

\* last-modified of a listed item
LastModifiedOf(item) == IF lAdapter = "draft" THEN item.lastModified ELSE item.time_stamp

\* C8: list-by-owner never returns more items than the requested limit: at
\* most 15 for the default listing and at most 100 for the list_all variants,
\* however the backend splits the query results into pages.
C8_AtMostLimit ==
    Listed => /\ lReq.operation = "list" => Len(lResp.items) <= 15
              /\ lReq.operation = "list_all" => Len(lResp.items) <= 100

\* C8 witness: a list_all over an index of more than 100 rows returned 100
\* items, gathered in more than one page.
C8_Witness ==
    /\ Listed /\ lReq.operation = "list_all"
    /\ Len(index) > 100 /\ Len(lResp.items) = 100
    /\ lKey # None /\ lKey[1] < Len(index)

\* C9 as stated: every listed item has a strictly later last-modified value
\* than the item that follows it.
C9_StrictlyDescending ==
    Listed => \A k \in 1..(Len(lResp.items) - 1) :
                  LastModifiedOf(lResp.items[k]) > LastModifiedOf(lResp.items[k + 1])

\* C9 amended: the listed items are sorted by last-modified descending: no
\* item has an earlier last-modified value than the item that follows it;
\* rows with equal last-modified values follow each other.
C9_Descending ==
    Listed => \A k \in 1..(Len(lResp.items) - 1) :
                  LastModifiedOf(lResp.items[k]) >= LastModifiedOf(lResp.items[k + 1])

\* C9 witness: a listing of at least three items holding both a tie and a drop
\* of last-modified.
C9_Witness ==
    /\ Listed /\ Len(lResp.items) >= 3
    /\ \E k \in 1..(Len(lResp.items) - 1) :
          LastModifiedOf(lResp.items[k]) = LastModifiedOf(lResp.items[k + 1])
    /\ \E k \in 1..(Len(lResp.items) - 1) :
          LastModifiedOf(lResp.items[k]) > LastModifiedOf(lResp.items[k + 1])

\* the rows of the owner that match the filter, newest first
MatchingRows == SelectSeq(index, LAMBDA row : Matches(row, lFilter))

\* the id of a listed item
ListedSessionId(item) == IF lAdapter = "draft" THEN item.sessionId ELSE item.session_id

\* the listing holds exactly the n newest matching rows
HoldsNewest(items, n) ==
    /\ Len(items) = n
    /\ {ListedSessionId(items[k]) : k \in 1..Len(items)}
          = {MatchingRows[k].session_id : k \in 1..n}
    /\ \A k \in 1..n : \A j \in (n + 1)..Len(MatchingRows) :
          MatchingRows[j].sort_key <= MatchingRows[k].sort_key

\* min(limit, m)
MinOf(a, b) == IF a < b THEN a ELSE b

\* the number of index rows the loop has read so far
Scanned == IF lKey = None THEN 0 ELSE lKey[1]

\* C25: for any table contents, any optional document-identifier filter and
\* any way the backend splits results into pages (also pages that return
\* fewer matching items than the page limit because of the filter), the
\* fetch loop of list-by-owner terminates: every pass that stays in the loop
\* reads further into the index, which is finite; and when no query fails
\* it returns exactly the min(limit, m) most recently modified rows of the
\* owner that match the filter, m being the number of matching rows.
C25_TerminatesWithNewest ==
    [][/\ (lPc = "loop" /\ lPc' = "loop")
             => (Scanned' > Scanned /\ Scanned' <= Len(index))
       /\ (Listed => HoldsNewest(lResp.items, MinOf(lLimit, Len(MatchingRows))))']_vars

\* C25 witness: a default listing with a filter that every other row
\* matches took more than one page, because the first page of 15 rows held
\* fewer than 15 matches, and returned all the matching rows.
C25_Witness ==
    /\ Listed /\ lReq.operation = "list" /\ HasFilter(lFilter)
    /\ Len(index) > DefaultLimit
    /\ Len(MatchingRows) < DefaultLimit /\ Len(MatchingRows) > DefaultLimit \div 2
    /\ Len(lResp.items) = Len(MatchingRows)
    /\ MatchingRows[Len(MatchingRows)].session_id > DefaultLimit

----------------------------------------------------------------------------
(* Feedback adapter *)

\* Topic of an entry submitted without a topic
DefaultTopic == "N/A (Good Response)"

FbTopics == {"t1", DefaultTopic}

\* datetime.utcnow() to the second
FbTimes == 1..MaxFbClock

\* the primary key of the feedback table: Topic and CreatedAt
FbKeys == FbTopics \X FbTimes

\* the custom:role claim: no claims in the event, no custom:role among the
\* claims, a value json.loads rejects, a JSON number, or a JSON list
RoleClaim(kind, roles) == [kind |-> kind, roles |-> roles]

RoleClaims ==
    {RoleClaim(k, <<>>) : k \in {"noclaims", "norole", "unparsable", "number"}}
    \cup {RoleClaim("list", r) : r \in {<<>>, <<"User">>, <<"User", "Admin">>}}

\* admin of lambda_handler: an exception on the way leaves it False
IsAdminAnyRoleList(role) == role.kind = "list"
IsAdmin(role) ==
    role.kind = "list" /\ \E k \in 1..Len(role.roles) : role.roles[k] = "Admin"

\* feedbackData of a request that passes validation
FeedbackDatas ==
    [sessionId : {"s1"}, prompt : {"p"}, completion : {"c"}, feedback : {0, 1},
     comment : {None, Some("k")}, topic : {None, Some("t1")},
     problem : {None}, sources : {None}]

\* feedbackData with an empty sessionId, which FeedbackData rejects
InvalidFeedbackData ==
    [sessionId |-> "", prompt |-> "p", completion |-> "c", feedback |-> 1,
     comment |-> None, topic |-> None, problem |-> None, sources |-> None]

\* startTime, endTime, topic of get_feedback and download_feedback;
\* topic, createdAt of delete_feedback
FbParams(startTime, endTime, topic, createdAt) ==
    [startTime |-> startTime, endTime |-> endTime, topic |-> topic, createdAt |-> createdAt]

NoFbParams == FbParams(None, None, None, None)

RangeParams ==
    {FbParams(s, Some(MaxFbClock), t, None) :
        s \in {None, Some(1), Some(MaxFbClock)}, t \in {None, Some("any"), Some("t1")}}

DeleteParams ==
    {FbParams(None, None, t, c) : t \in {None, Some("t1")}, c \in {None, Some(1)}}

\* event['body']: missing, not JSON, an object with feedbackData, or an
\* object with the members of a download request
FbBody(kind, data, range) == [kind |-> kind, data |-> data, range |-> range]

FbBodies ==
    {FbBody(k, InvalidFeedbackData, NoFbParams) : k \in {"missing", "badjson", "feedback"}}
    \cup {FbBody("feedback", d, NoFbParams) : d \in FeedbackDatas}
    \cup {FbBody("range", InvalidFeedbackData, p) : p \in RangeParams}

FeedbackPath == "/user-feedback"
DownloadPath == "/user-feedback/download-feedback"

FbRequest(method, rawPath, role, body, params) ==
    [method |-> method, rawPath |-> rawPath, role |-> role, body |-> body, params |-> params]

FbRequests ==
    {FbRequest("POST", p, r, b, NoFbParams) :
        p \in {FeedbackPath, DownloadPath}, r \in RoleClaims, b \in FbBodies}
    \cup {FbRequest("GET", FeedbackPath, r, FbBody("missing", InvalidFeedbackData, NoFbParams), p) :
        r \in RoleClaims, p \in RangeParams}
    \cup {FbRequest(m, FeedbackPath, r, FbBody("missing", InvalidFeedbackData, NoFbParams), p) :
        m \in {"DELETE", "PUT"}, r \in RoleClaims, p \in DeleteParams}

NoFbRequest ==
    FbRequest("", "", RoleClaim("noclaims", <<>>),
              FbBody("missing", InvalidFeedbackData, NoFbParams), NoFbParams)

\* fn: the function lambda_handler called; out: "response" when a response
\* with a statusCode was returned, "none" when the function returned None,
\* "raised" when an exception left the handler
FbResponse(fn, out, status, items) ==
    [fn |-> fn, out |-> out, status |-> status, items |-> items]

NoFbResponse == FbResponse("none", "none", 0, {})

NoFbRow == <<>>

\* the exceptions of the backends: table.put_item / table.query, s3
FbFaults == {"none", "dynamodb", "s3"}

\* the branch lambda_handler takes
Dispatch(req) ==
    IF req.method = "POST"
    THEN IF req.rawPath = DownloadPath /\ IsAdmin(req.role)
         THEN "download_feedback" ELSE "post_feedback"
    ELSE IF req.method = "GET" /\ IsAdmin(req.role) THEN "get_feedback"
    ELSE IF req.method = "DELETE" /\ IsAdmin(req.role) THEN "delete_feedback"
    ELSE "none"

\* post_feedback: item
FeedbackItem(data, feedback_id, timestamp) ==
    [FeedbackID |-> feedback_id,
     SessionID |-> data.sessionId,
     UserPrompt |-> data.prompt,
     FeedbackComments |-> IF data.comment = None THEN "" ELSE data.comment[1],
     Topic |-> IF data.topic = None THEN DefaultTopic ELSE data.topic[1],
     Problem |-> IF data.problem = None THEN "" ELSE data.problem[1],
     Feedback |-> data.feedback,
     ChatbotMessage |-> data.completion,
     Sources |-> IF data.sources = None THEN <<>> ELSE data.sources[1],
     CreatedAt |-> timestamp,
     Any |-> "YES"]

\* table.put_item: the item takes the place of the row with its key
PutItem(table, item) == [table EXCEPT ![<<item.Topic, item.CreatedAt>>] = <<item>>]

\* a body post_feedback stores
ValidFeedback(body) == body.kind = "feedback" /\ body.data.sessionId # ""

\* the status post_feedback answers with
PostStatus(body, fault) ==
    IF body.kind \in {"missing", "badjson"} THEN 500
    ELSE IF ~ValidFeedback(body) THEN 400
    ELSE IF fault = "dynamodb" THEN 500
    ELSE 200

\* table.query of download_feedback: AnyIndex when topic is empty or "any",
\* the table's own key otherwise
QueryRange(table, params) ==
    {table[k][1] : k \in {k \in DOMAIN table :
        /\ table[k] # NoFbRow
        /\ params.startTime[1] <= k[2] /\ k[2] <= params.endTime[1]
        /\ (params.topic = None \/ params.topic[1] = "any" \/ params.topic[1] = k[1])}}

\* startTime and endTime are required
ValidRange(params) == params.startTime # None /\ params.endTime # None

\* topic and createdAt are required
ValidDelete(params) == params.topic # None /\ params.createdAt # None

\* download_feedback
DownloadFeedback(table, body, fault) ==
    IF body.kind \in {"missing", "badjson"}
    THEN FbResponse("download_feedback", "raised", 0, {})
    ELSE IF body.kind # "range" \/ ~ValidRange(body.range)
    THEN FbResponse("download_feedback", "response", 400, {})
    ELSE IF fault # "none"
    THEN FbResponse("download_feedback", "response", 500, {})
    ELSE FbResponse("download_feedback", "response", 200, QueryRange(table, body.range))

\* get_feedback: the query and the 200 response stand inside the handler of
\* the validation error, after its return; with valid parameters the try
\* block ends after parsing and the function returns None
GetFeedback(table, params) ==
    IF ~ValidRange(params) THEN FbResponse("get_feedback", "response", 400, {})
    ELSE FbResponse("get_feedback", "none", 0, {})

\* delete_feedback: table.delete_item stands inside the handler of the
\* validation error, after its return
DeleteFeedback(table, params) ==
    IF ~ValidDelete(params) THEN FbResponse("delete_feedback", "response", 400, {})
    ELSE FbResponse("delete_feedback", "none", 0, {})

FbInit ==
    /\ fbTable = [k \in FbKeys |-> NoFbRow]
    /\ fbClock = 1
    /\ fbIds = 0
    /\ fbPc = "idle"
    /\ fbReq = NoFbRequest
    /\ fbResp = NoFbResponse

\* lambda_handler of the feedback adapter, on one event
FbHandle ==
    /\ fbPc = "idle"
    /\ \E req \in FbRequests : \E fault \in FbFaults :
          LET fn == Dispatch(req) IN
          /\ fbReq' = req
          /\ CASE fn = "post_feedback" ->
                    LET status == PostStatus(req.body, fault)
                        item == FeedbackItem(req.body.data, fbIds + 1, fbClock)
                    IN  /\ status = 200 => fbIds < MaxFeedback
                        /\ fbResp' = FbResponse(fn, "response", status, {})
                        /\ fbTable' = IF status = 200 THEN PutItem(fbTable, item) ELSE fbTable
                        /\ fbIds' = IF status = 200 THEN fbIds + 1 ELSE fbIds
               [] fn = "download_feedback" ->
                    /\ fbResp' = DownloadFeedback(fbTable, req.body, fault)
                    /\ UNCHANGED <<fbTable, fbIds>>
               [] fn = "get_feedback" ->
                    /\ fbResp' = GetFeedback(fbTable, req.params)
                    /\ UNCHANGED <<fbTable, fbIds>>
               [] fn = "delete_feedback" ->
                    /\ fbResp' = DeleteFeedback(fbTable, req.params)
                    /\ UNCHANGED <<fbTable, fbIds>>
               [] OTHER ->
                    /\ fbResp' = FbResponse("none", "response", 405, {})
                    /\ UNCHANGED <<fbTable, fbIds>>
    /\ fbPc' = "done"
    /\ UNCHANGED fbClock
    /\ UNCHANGED notFb

\* the response is returned and the adapter waits for the next event
FbReturn ==
    /\ fbPc = "done"
    /\ fbPc' = "idle"
    /\ fbReq' = NoFbRequest
    /\ fbResp' = NoFbResponse
    /\ UNCHANGED <<fbTable, fbClock, fbIds>>
    /\ UNCHANGED notFb

\* a second passes
FbTick ==
    /\ fbPc = "idle"
    /\ fbClock < MaxFbClock
    /\ fbClock' = fbClock + 1
    /\ UNCHANGED <<fbTable, fbIds, fbPc, fbReq, fbResp>>
    /\ UNCHANGED notFb

FbNext == FbHandle \/ FbReturn \/ FbTick

----------------------------------------------------------------------------
(* Claims about the feedback adapter *)

FbDone == fbPc = "done"

\* C11: after a valid feedback submission, an admin get_feedback whose
\* inclusive time range covers the entry's timestamp (topic matching or
\* "any") returns status 200 with the entry as it was stored on submission.
C11_GetReturnsSubmitted ==
    (/\ FbDone /\ fbReq.method = "GET" /\ IsAdmin(fbReq.role)
     /\ ValidRange(fbReq.params) /\ QueryRange(fbTable, fbReq.params) # {})
        => /\ fbResp.out = "response" /\ fbResp.status = 200
           /\ QueryRange(fbTable, fbReq.params) \subseteq fbResp.items

\* the role claim is missing, unparsable or does not contain "Admin"
NotAdminClaim(role) ==
    \/ role.kind \in {"noclaims", "norole", "unparsable"}
    \/ \A k \in 1..Len(role.roles) : role.roles[k] # "Admin"

\* C13: for a request whose role claim is missing, unparsable or without
\* "Admin", none of get_feedback, delete_feedback and download_feedback is
\* executed: the handler either runs post_feedback or answers 405 without
\* calling any of them.
C13_NonAdminOnlySubmits ==
    (FbDone /\ NotAdminClaim(fbReq.role))
        => /\ fbResp.fn \in {"post_feedback", "none"}
           /\ fbResp.fn = "none" => (fbResp.status = 405 /\ fbReq.method # "POST")

\* C13 witness: a caller without the Admin role posted to the download path
\* and the handler ran post_feedback, which stored the entry.
C13_Witness ==
    /\ FbDone /\ fbReq.role = RoleClaim("list", <<"User">>)
    /\ fbReq.method = "POST" /\ fbReq.rawPath = DownloadPath
    /\ fbResp.fn = "post_feedback" /\ fbResp.status = 200
    /\ \E k \in FbKeys : fbTable[k] # NoFbRow

\* C18: an entry stored in the feedback table stays there with its field
\* values through every later submission, also one with the same topic in
\* the same second; only delete_feedback removes an entry.
C18_EntriesImmutable ==
    [][\/ fbResp'.fn = "delete_feedback"
       \/ \A k \in FbKeys : fbTable[k] # NoFbRow => fbTable'[k] = fbTable[k]]_vars

\* C28: an admin DELETE request with valid topic and createdAt parameters
\* removes the feedback entry with that key from the table and returns
\* status 200.
C28_DeleteRemovesEntry ==
    (FbDone /\ fbReq.method = "DELETE" /\ IsAdmin(fbReq.role) /\ ValidDelete(fbReq.params))
        => /\ fbResp.out = "response" /\ fbResp.status = 200
           /\ fbTable[<<fbReq.params.topic[1], fbReq.params.createdAt[1]>>] = NoFbRow

----------------------------------------------------------------------------
(* CSV export of download_feedback *)

\* the characters of a field: a letter, the comma, the double quote, the
\* line feed and the carriage return
CsvChars == {"a", ",", "\"", "\n", "\r"}

CsvFields == SeqsUpTo(CsvChars, MaxFieldLen)

\* response['Items']: the text a user typed varies, the rest is fixed
CsvItem(prompt, comment) ==
    [FeedbackID |-> <<"i">>, SessionID |-> <<"s">>, UserPrompt |-> prompt,
     FeedbackComments |-> comment, Topic |-> <<"t">>, Problem |-> <<>>,
     Feedback |-> <<"1">>, ChatbotMessage |-> <<"c">>, CreatedAt |-> <<"2">>]

CsvItems == {CsvItem(p, c) : p \in CsvFields, c \in {<<>>, <<",", "\n">>}}

\* str.replace(old, new) for a one-character old
RECURSIVE Replace(_, _, _)
Replace(s, old, new) ==
    IF s = <<>> THEN <<>>
    ELSE (IF Head(s) = old THEN new ELSE <<Head(s)>>) \o Replace(Tail(s), old, new)

\* clean_csv
CleanCsv(field) ==
    Replace(Replace(Replace(field, "\"", <<"\"", "\"">>), "\n", <<>>), ",", <<>>)

\* the columns of a line, in the order of the f-string
CsvColumns ==
    <<"FeedbackID", "SessionID", "UserPrompt", "FeedbackComments", "Topic",
      "Problem", "Feedback", "ChatbotMessage", "CreatedAt">>

\* the first line of csv_content, each column title as one token
CsvHeader ==
    <<"FeedbackID", ",", " ", "SessionID", ",", " ", "UserPrompt", ",", " ",
      "FeedbackComment", ",", " ", "Topic", ",", " ", "Problem", ",", " ",
      "Feedback", ",", " ", "ChatbotMessage", ",", " ", "CreatedAt", "\n">>

\* the cleaned fields of an item joined by ", "
RECURSIVE JoinColumns(_, _)
JoinColumns(item, k) ==
    IF k > Len(CsvColumns) THEN <<>>
    ELSE CleanCsv(item[CsvColumns[k]])
         \o (IF k < Len(CsvColumns) THEN <<",", " ">> ELSE <<>>)
         \o JoinColumns(item, k + 1)

\* the line csv_content grows by for an item
CsvLine(item) == JoinColumns(item, 1) \o <<"\n">>

\* csv_content
RECURSIVE CsvContent(_)
CsvContent(items) ==
    IF items = <<>> THEN CsvHeader
    ELSE CsvContent(SubSeq(items, 1, Len(items) - 1)) \o CsvLine(items[Len(items)])

CsvInit ==
    /\ csvItems \in SeqsUpTo(CsvItems, MaxCsvRows)
    /\ csvContent = <<>>
    /\ csvPc = "idle"

\* download_feedback builds csv_content from the items of the query
CsvExport ==
    /\ csvPc = "idle"
    /\ csvContent' = CsvContent(csvItems)
    /\ csvPc' = "done"
    /\ UNCHANGED csvItems
    /\ UNCHANGED notCsv

CsvNext == CsvExport

----------------------------------------------------------------------------
(* Claims about the CSV export *)

\* the line ends a reader of the file sees: a line feed, or a carriage
\* return that no line feed follows
LineEnds(text) ==
    {k \in 1..Len(text) :
        \/ text[k] = "\n"
        \/ text[k] = "\r" /\ (k = Len(text) \/ text[k + 1] # "\n")}

\* C12: the exported CSV has exactly one data line per input row after the
\* header line, also for rows whose fields contain commas, double quotes or
\* line breaks.
C12_OneLinePerRow ==
    csvPc = "done" => Cardinality(LineEnds(csvContent)) = 1 + Len(csvItems)

----------------------------------------------------------------------------
(* Knowledge-base sync adapter: HTTP invocations *)

\* event['rawPath'], as the parts the routing looks for
HttpPaths ==
    {<<"still-syncing">>, <<"last-sync">>, <<"last-sync", "still-syncing">>,
     <<"sync-kb">>, <<"other">>}

\* marker in resource_path
InPath(marker, path) == \E k \in 1..Len(path) : path[k] = marker

HttpRequests == [rawPath : HttpPaths, role : RoleClaims]

NoHttpRequest == [rawPath |-> <<>>, role |-> RoleClaim("noclaims", <<>>)]

\* out: "response" when a response with a statusCode was returned, "none"
\* when lambda_handler returned None, "raised" when an exception left it
HttpResponse(out, status, body) == [out |-> out, status |-> status, body |-> body]

NoHttpResponse == HttpResponse("none", 0, "")

\* the ingestion jobs of a data source when the request arrives
HttpJobLists ==
    {<<>>, <<"STARTING">>, <<"IN_PROGRESS">>, <<"COMPLETE">>, <<"COMPLETE", "IN_PROGRESS">>}

\* the admin check: 0 when granted, else the status of the refusal
SyncRoleStatusAnyRoleList(role) == IF role.kind # "list" THEN 500 ELSE 0
SyncRoleStatus(role) ==
    IF role.kind # "list" THEN 500
    ELSE IF \E k \in 1..Len(role.roles) : role.roles[k] = "Admin" THEN 0
    ELSE 403

\* a call of client.list_ingestion_jobs
ListCall(ds, status) == [op |-> "list_ingestion_jobs", ds |-> ds, status |-> status]

\* the calls of check_running for a data source id, none for an empty id
CheckRunningCalls(cfg, ds) ==
    IF Configured(cfg, ds)
    THEN <<ListCall(ds, "IN_PROGRESS"), ListCall(ds, "STARTING")>>
    ELSE <<>>

\* check_running
CheckRunning(cfg, ds) ==
    /\ Configured(cfg, ds)
    /\ CheckRunningResult(ListIngestionJobs(ds, "STARTING"), ListIngestionJobs(ds, "IN_PROGRESS"))

\* check_any_running
CheckAnyRunning(cfg) == AnyRunning(CheckRunning(cfg, "nofo"), CheckRunning(cfg, "user-documents"))

\* the calls of get_last_sync
LastSyncCalls(cfg) ==
    (IF cfg.source THEN <<ListCall("nofo", "COMPLETE")>> ELSE <<>>)
    \o (IF cfg.userDocs THEN <<ListCall("user-documents", "COMPLETE")>> ELSE <<>>)

\* all_syncs of get_last_sync
AllSyncs(cfg) ==
    (IF cfg.source THEN ListIngestionJobs("nofo", "COMPLETE") ELSE <<>>)
    \o (IF cfg.userDocs THEN ListIngestionJobs("user-documents", "COMPLETE") ELSE <<>>)

\* the branch taken after the admin check
HttpBranch(path) ==
    IF InPath("still-syncing", path) THEN "still-syncing"
    ELSE IF InPath("last-sync", path) THEN "last-sync"
    ELSE "none"

\* the list_ingestion_jobs calls of a branch, in order
BranchCalls(cfg, branch) ==
    CASE branch = "still-syncing" ->
            CheckRunningCalls(cfg, "nofo") \o CheckRunningCalls(cfg, "user-documents")
      [] branch = "last-sync" -> LastSyncCalls(cfg)
      [] OTHER -> <<>>

\* what a branch returns when no call raises
BranchResponse(cfg, branch) ==
    CASE branch = "still-syncing" ->
            HttpResponse("response", 200,
                         IF CheckAnyRunning(cfg) THEN "STILL SYNCING" ELSE "DONE SYNCING")
      [] branch = "last-sync" ->
            HttpResponse("response", 200,
                         IF AllSyncs(cfg) = <<>> THEN "No sync history available"
                         ELSE "updatedAt")
      [] OTHER -> NoHttpResponse

\* the environment and the ingestion jobs an HTTP invocation finds
HttpBackend ==
    /\ syncCfg \in SyncCfgs
    /\ jobs \in [DataSources -> HttpJobLists]
    /\ inv = [i \in Invocations |-> IdleInvocation]
    /\ startLog = {}

HttpInit ==
    /\ hPc = "idle"
    /\ hReq = NoHttpRequest
    /\ hResp = NoHttpResponse
    /\ hCalls = <<>>

\* lambda_handler entered with a rawPath; raising is the number of the
\* list_ingestion_jobs call that raises, 0 when none does
HttpHandle ==
    /\ hPc = "idle"
    /\ \E req \in HttpRequests :
          LET refusal == SyncRoleStatus(req.role)
              branch == HttpBranch(req.rawPath)
              calls == BranchCalls(syncCfg, branch)
          IN  /\ hReq' = req
              /\ IF refusal # 0
                 THEN /\ hResp' = HttpResponse("response", refusal, "")
                      /\ hCalls' = <<>>
                 ELSE \E raising \in 0..Len(calls) :
                         IF raising > 0
                         THEN /\ hResp' = HttpResponse("raised", 0, "")
                              /\ hCalls' = SubSeq(calls, 1, raising)
                         ELSE /\ hResp' = BranchResponse(syncCfg, branch)
                              /\ hCalls' = calls
    /\ hPc' = "done"
    /\ UNCHANGED notHttp

\* the invocation is over and the adapter waits for the next event
HttpReturn ==
    /\ hPc = "done"
    /\ hPc' = "idle"
    /\ hReq' = NoHttpRequest
    /\ hResp' = NoHttpResponse
    /\ hCalls' = <<>>
    /\ UNCHANGED notHttp

HttpNext == HttpHandle \/ HttpReturn

----------------------------------------------------------------------------
(* Claims about HTTP invocations of the sync adapter *)

HttpDone == hPc = "done"

\* the role claim is a list of roles without "Admin"
RoleListWithoutAdmin(role) ==
    role.kind = "list" /\ \A k \in 1..Len(role.roles) : role.roles[k] # "Admin"

\* C14: an HTTP invocation (non-empty request path) whose role list does
\* not contain "Admin" is answered 403 and makes no list_ingestion_jobs and
\* no start_ingestion_job call; without a usable role claim no call is made
\* either.
C14_NonAdminIs403 ==
    /\ (HttpDone /\ RoleListWithoutAdmin(hReq.role))
          => (hResp.out = "response" /\ hResp.status = 403 /\ hCalls = <<>>)
    /\ (HttpDone /\ NotAdminClaim(hReq.role)) => (hCalls = <<>> /\ startLog = {})

\* C14 witness: a caller with the role list ["User"] asked for the sync
\* status while a job was running, and got 403.
C14_Witness ==
    /\ HttpDone /\ hReq.role = RoleClaim("list", <<"User">>)
    /\ hReq.rawPath = <<"still-syncing">>
    /\ syncCfg.source /\ jobs["nofo"] = <<"IN_PROGRESS">>
    /\ hResp.status = 403

\* C15: an admin HTTP invocation whose path contains "sync-kb" starts an
\* ingestion job when none is IN_PROGRESS or STARTING and returns a response
\* with a status code.
C15_SyncKbStarts ==
    (HttpDone /\ SyncRoleStatus(hReq.role) = 0 /\ InPath("sync-kb", hReq.rawPath))
        => /\ hResp.out = "response" /\ hResp.status # 0
           /\ ~CheckAnyRunning(syncCfg) =>
                 \E k \in 1..Len(hCalls) : hCalls[k].op = "start_ingestion_job"

\* C19: whatever exception a backend client raises during an invocation,
\* the handler returns a response with a status code; no exception leaves
\* the handler.
C19_NoExceptionLeavesHandler == HttpDone => hResp.out # "raised"

----------------------------------------------------------------------------
(* Session store adapter *)

SessKey == <<"u1", "s1">>

\* f"Chat on {str(datetime.now())}"
DefaultSessionTitle == <<"Chat on now">>

\* a JSON member that is null, one chat entry (an object) or a list of
\* chat entries; v is a sequence in every case
JsonNull == [t |-> "null", v |-> <<>>]
JsonEntry(e) == [t |-> "dict", v |-> <<e>>]
JsonList(l) == [t |-> "list", v |-> l]

SessRequest(operation, new_chat_entry, chat_history) ==
    [operation |-> operation, new_chat_entry |-> new_chat_entry, chat_history |-> chat_history]

\* the bodies lambda_handler is given, all for the key (u1, s1)
SessRequests ==
    {SessRequest("add_session", n, h) :
        n \in {JsonNull, JsonEntry("e0")}, h \in {JsonNull, JsonList(<<"h0">>)}}
    \cup {SessRequest(op, JsonNull, JsonNull) : op \in {"get_session", "delete_session"}}
    \cup {SessRequest("update_session", n, JsonNull) :
        n \in {JsonNull, JsonList(<<"a">>), JsonList(<<"b">>)}}

NoSessRequest == SessRequest("", JsonNull, JsonNull)

NoSessRow == <<>>

\* out: "response" when a response with a statusCode was returned, "raised"
\* when an exception left lambda_handler; item: the body of get_session
SessResponse(out, status, item, deleted) ==
    [out |-> out, status |-> status, item |-> item, deleted |-> deleted]

NoSessResponse == SessResponse("none", 0, NoSessRow, "none")

\* lambda_handler as it waits for an event
IdleSession ==
    [pc |-> "idle", req |-> NoSessRequest, history |-> <<>>, resp |-> NoSessResponse]

\* add_session: item
SessionItem(req) ==
    [title |-> Strip(DefaultSessionTitle),
     time_stamp |-> "now",
     document_identifier |-> Null(""),
     chat_history |->
        IF req.new_chat_entry.t # "null" THEN req.new_chat_entry.v
        ELSE IF req.chat_history.t # "null" /\ req.chat_history.v # <<>>
        THEN req.chat_history.v
        ELSE <<>>]

\* session_data.get('chat_history', [])
CurrentChatHistory(row) == IF row = NoSessRow THEN <<>> ELSE row[1].chat_history

\* current_chat_history + new_chat_entry
UpdatedChatHistory(current, new) == current \o new

\* table.update_item with "set chat_history = :chat_history": a row that is
\* not there is created with the key and this attribute
SetChatHistory(row, history) ==
    IF row = NoSessRow
    THEN <<[title |-> <<>>, time_stamp |-> "", document_identifier |-> Null(""),
            chat_history |-> history]>>
    ELSE <<[row[1] EXCEPT !.chat_history = history]>>

SessInit ==
    /\ sessions = NoSessRow
    /\ sInv = [i \in Invocations |-> IdleSession]

\* lambda_handler on one event, up to its first table call: add_session,
\* get_session and delete_session are over after it; update_session has
\* read the session and goes on to write
SessInvoke(i) ==
    /\ sInv[i].pc = "idle"
    /\ \E req \in SessRequests : \E fault \in Faults :
        LET error == SessResponse("response", ClientErrorStatus(fault), NoSessRow, "none")
        IN
        CASE req.operation = "add_session" ->
                IF fault # "none"
                THEN /\ sInv' = [sInv EXCEPT ![i] = [pc |-> "done", req |-> req, history |-> <<>>, resp |-> error]]
                     /\ UNCHANGED sessions
                ELSE /\ sessions' = <<SessionItem(req)>>
                     /\ sInv' = [sInv EXCEPT ![i] =
                            [pc |-> "done", req |-> req, history |-> <<>>,
                             resp |-> SessResponse("response", 200, NoSessRow, "none")]]
          [] req.operation = "get_session" ->
                /\ UNCHANGED sessions
                /\ sInv' = [sInv EXCEPT ![i] =
                       [pc |-> "done", req |-> req, history |-> <<>>,
                        resp |-> IF fault # "none" THEN error
                                 ELSE SessResponse("response", 200, sessions, "none")]]
          [] req.operation = "delete_session" ->
                IF fault # "none"
                THEN /\ sInv' = [sInv EXCEPT ![i] =
                            [pc |-> "done", req |-> req, history |-> <<>>,
                             resp |-> [error EXCEPT !.deleted = "false"]]]
                     /\ UNCHANGED sessions
                ELSE /\ sessions' = NoSessRow
                     /\ sInv' = [sInv EXCEPT ![i] =
                            [pc |-> "done", req |-> req, history |-> <<>>,
                             resp |-> SessResponse("response", 200, NoSessRow, "true")]]
          [] req.operation = "update_session" ->
                /\ Len(CurrentChatHistory(sessions)) < MaxHistory
                /\ UNCHANGED sessions
                /\ sInv' = [sInv EXCEPT ![i] =
                       IF fault # "none"
                       THEN [pc |-> "done", req |-> req, history |-> <<>>, resp |-> error]
                       ELSE IF req.new_chat_entry.t # "list"
                       THEN [pc |-> "done", req |-> req, history |-> <<>>,
                             resp |-> SessResponse("response", 500, NoSessRow, "none")]
                       ELSE [pc |-> "write", req |-> req,
                             history |-> UpdatedChatHistory(CurrentChatHistory(sessions),
                                                            req.new_chat_entry.v),
                             resp |-> NoSessResponse]]
    /\ UNCHANGED notSess

\* update_session: table.update_item with the history computed from the read
SessWrite(i) ==
    /\ sInv[i].pc = "write"
    /\ \E fault \in Faults :
          IF fault # "none"
          THEN /\ sInv' = [sInv EXCEPT ![i].pc = "done",
                                       ![i].resp = SessResponse("response", ClientErrorStatus(fault), NoSessRow, "none")]
               /\ UNCHANGED sessions
          ELSE /\ sessions' = SetChatHistory(sessions, sInv[i].history)
               /\ sInv' = [sInv EXCEPT ![i].pc = "done",
                                       ![i].resp = SessResponse("response", 200, NoSessRow, "none")]
    /\ UNCHANGED notSess

\* the response is returned and the adapter waits for the next event
SessReturn(i) ==
    /\ sInv[i].pc = "done"
    /\ sInv' = [sInv EXCEPT ![i] = IdleSession]
    /\ UNCHANGED sessions
    /\ UNCHANGED notSess

SessNext ==
    \/ \E i \in Invocations : SessInvoke(i)
    \/ \E i \in Invocations : SessWrite(i)
    \/ \E i \in Invocations : SessReturn(i)

----------------------------------------------------------------------------
(* Claims about the session store adapter *)

\* invocation i completes a successful update_session in this step
UpdateSucceeds(i) ==
    /\ sInv[i].pc = "write" /\ sInv'[i].pc = "done" /\ sInv'[i].resp.status = 200

\* C16: chat history is append-only via update: after every successful
\* update_session on an existing session the stored chat history is the
\* history stored before the write followed by the new entries.
C16_UpdateAppends ==
    [][\A i \in Invocations :
          (UpdateSucceeds(i) /\ sessions # NoSessRow)
             => /\ sessions' # NoSessRow
                /\ sessions'[1].chat_history =
                      sessions[1].chat_history \o sInv[i].req.new_chat_entry.v]_vars

\* invocation j has completed a successful update_session and its write is
\* what the table holds
UpdateStored(j) ==
    /\ sInv[j].pc = "done" /\ sInv[j].req.operation = "update_session"
    /\ sInv[j].resp.status = 200
    /\ sessions # NoSessRow /\ sessions[1].chat_history = sInv[j].history

\* invocation i read a session with a stored history before its write
ReadExisting(i) == Len(sInv[i].history) > Len(sInv[i].req.new_chat_entry.v)

\* every entry of entries is in history
ContainsEntries(history, entries) ==
    \A k \in 1..Len(entries) : \E m \in 1..Len(history) : history[m] = entries[k]

\* C29: when two update_session invocations for the same existing session
\* interleave in any order, the stored chat history after the second write
\* contains the new entries of both invocations: no appended entry is lost.
C29_NoEntryLost ==
    [][\A i, j \in Invocations :
          (/\ i # j /\ UpdateSucceeds(i) /\ UpdateStored(j)
           /\ ReadExisting(i) /\ ReadExisting(j))
             => /\ sessions' # NoSessRow
                /\ ContainsEntries(sessions'[1].chat_history, sInv[i].req.new_chat_entry.v)
                /\ ContainsEntries(sessions'[1].chat_history, sInv[j].req.new_chat_entry.v)]_vars

----------------------------------------------------------------------------
(* delete-all-for-owner: delete_user_drafts and delete_user_sessions *)

MaxUserRows == 3

\* user_id of the request body
UserIds == {"u1", ""}

\* the rows of owner u1, as LastModifiedIndex / TimeIndex returns them
UserTables == {[i \in 1..n |-> IndexRow(i, n, shape)] : n \in 0..MaxUserRows, shape \in TableShapes}

\* a Python str
PyStr(s) == [t |-> "str", v |-> s]

\* the keys of the dict both list functions return, in insertion order
ResponseKeys == <<"statusCode", "headers", "body">>

\* the dict list_drafts_by_user_id / list_sessions_by_user_id returns; body
\* stands for its JSON text
ListResponse(status, items) ==
    [t |-> "dict", keys |-> ResponseKeys, statusCode |-> status, body |-> items]

NoListing == ListResponse(0, <<>>)

\* list_drafts_by_user_id(user_id) / list_sessions_by_user_id(user_id): no
\* document filter, limit=15; an error of table.query becomes a response
ListByUserId(adapter, table, fault) ==
    IF fault # "none"
    THEN ListResponse(ListErrorStatus(fault), <<>>)
    ELSE LET n == IF Len(table) < DefaultLimit THEN Len(table) ELSE DefaultLimit
         IN  ListResponse(200, Project(adapter, SortedDescending(SubSeq(table, 1, n))))

\* for x in value: a dict yields its keys, a list its elements
Elements(x) ==
    IF x.t = "dict" THEN [k \in 1..Len(x.keys) |-> PyStr(x.keys[k])] ELSE x.v

\* draft["session_id"] and session["SessionId"]
IdKey(adapter) == IF adapter = "draft" THEN "session_id" ELSE "SessionId"

\* x[key]: a str subscripted with a str raises TypeError, a dict without
\* the key raises KeyError
Subscript(x, key) ==
    IF x.t = "str" THEN [raised |-> "TypeError", v |-> 0]
    ELSE IF \A k \in 1..Len(x.keys) : x.keys[k] # key THEN [raised |-> "KeyError", v |-> 0]
    ELSE [raised |-> "", v |-> x[key]]

\* {"id": ..., "deleted": result["deleted"]}
ResultEntry(id, deleted) == [id |-> Some(id), deleted |-> Some(deleted), error |-> None]

\* {"error": str(error)}
ErrorEntry(error) == [id |-> None, deleted |-> None, error |-> Some(error)]

\* table.delete_item on the row of (user_id, session_id)
RemoveRow(table, id) == SelectSeq(table, LAMBDA row : row.session_id # id)

NoUserRequest == [operation |-> "none", user_id |-> ""]
NoUserResponse == [status |-> 0, entries |-> <<>>]

UserInit ==
    /\ uAdapter \in Adapters
    /\ uTable \in UserTables
    /\ uPc = "idle"
    /\ uReq = NoUserRequest
    /\ uListing = NoListing
    /\ uPos = 0
    /\ uRet = <<>>
    /\ uResp = NoUserResponse

\* lambda_handler on a delete_user_drafts / delete_user_sessions event; only
\* the draft handler requires user_id
DeleteUserStart ==
    /\ uPc = "idle"
    /\ \E user_id \in UserIds :
          /\ uReq' = [operation |-> "delete_user", user_id |-> user_id]
          /\ IF uAdapter = "draft" /\ user_id = ""
             THEN uPc' = "done" /\ uResp' = [status |-> 400, entries |-> <<>>]
             ELSE uPc' = "list" /\ uResp' = NoUserResponse
    /\ UNCHANGED <<uAdapter, uTable, uListing, uPos, uRet>>
    /\ UNCHANGED notUser

\* drafts = list_drafts_by_user_id(user_id); ret_value = []
\* (a query with an empty key value is rejected by the backend)
DeleteUserList ==
    /\ uPc = "list"
    /\ \E fault \in {"none"} \cup ListFaults :
          /\ uReq.user_id = "" => fault # "none"
          /\ uListing' = ListByUserId(uAdapter, uTable, fault)
    /\ uPos' = 1
    /\ uRet' = <<>>
    /\ uPc' = "loop"
    /\ UNCHANGED <<uAdapter, uTable, uReq, uResp>>
    /\ UNCHANGED notUser

\* one pass of `for draft in drafts`, or the return after the last pass; an
\* exception in the body ends the loop in `except Exception`
DeleteUserLoop ==
    /\ uPc = "loop"
    /\ LET elements == Elements(uListing)
       IN  IF uPos > Len(elements)
           THEN /\ uResp' = [status |-> 0, entries |-> uRet]
                /\ uPc' = "done"
                /\ UNCHANGED <<uTable, uPos, uRet>>
           ELSE LET id == Subscript(elements[uPos], IdKey(uAdapter))
                IN  IF id.raised # ""
                    THEN /\ uRet' = <<ErrorEntry(id.raised)>>
                         /\ uResp' = [status |-> 0, entries |-> uRet']
                         /\ uPc' = "done"
                         /\ UNCHANGED <<uTable, uPos>>
                    ELSE \E fault \in Faults :
                            /\ uTable' = IF fault = "none" THEN RemoveRow(uTable, id.v) ELSE uTable
                            /\ uRet' = Append(uRet, ResultEntry(id.v, fault = "none"))
                            /\ uPos' = uPos + 1
                            /\ UNCHANGED <<uPc, uResp>>
    /\ UNCHANGED <<uAdapter, uReq, uListing>>
    /\ UNCHANGED notUser

\* the result is returned and the adapter waits for the next event
DeleteUserReturn ==
    /\ uPc = "done"
    /\ uPc' = "idle"
    /\ uReq' = NoUserRequest
    /\ uListing' = NoListing
    /\ uPos' = 0
    /\ uRet' = <<>>
    /\ uResp' = NoUserResponse
    /\ UNCHANGED <<uAdapter, uTable>>
    /\ UNCHANGED notUser

UserNext == DeleteUserStart \/ DeleteUserList \/ DeleteUserLoop \/ DeleteUserReturn

----------------------------------------------------------------------------
(* Claims about delete-all-for-owner *)

\* the id of a listed item
ListedId(item) == IF uAdapter = "draft" THEN item.sessionId ELSE item.session_id

\* C20: delete-all-for-owner attempts to delete every row returned by the
\* owner's listing and returns one {id, deleted} entry per row; a row whose
\* entry says deleted is gone from the table, and a failure on one row is
\* reported in that row's entry without stopping the others.
C20_OneEntryPerListedRow ==
    (uPc = "done" /\ uListing.statusCode = 200) =>
        /\ Len(uResp.entries) = Len(uListing.body)
        /\ \A k \in 1..Len(uListing.body) :
              /\ uResp.entries[k].id = Some(ListedId(uListing.body[k]))
              /\ uResp.entries[k].deleted # None
              /\ uResp.entries[k].deleted = Some(TRUE)
                    => \A j \in 1..Len(uTable) :
                          uTable[j].session_id # ListedId(uListing.body[k])

----------------------------------------------------------------------------
(* HTML-to-PDF adapter: html-to-pdf-converter *)

MaxRecords == 2

\* object keys are sequences of path segments ('/'.join(segments))
PendingPrefix == "pending-conversion"
HtmlName == "NOFO-File-HTML.html"
PdfName == "NOFO-File-PDF"

\* keys as they arrive in the event, URL-encoded
EventKeys ==
    {<<PendingPrefix, "t1", HtmlName>>, <<PendingPrefix, "t%32", HtmlName>>,
     <<PendingPrefix, HtmlName>>, <<"other", "t1", HtmlName>>,
     <<PendingPrefix, "t1", "notes.txt">>}

\* a record of event['Records']: a dict with the s3 object key, or a value
\* that is not a dict
PdfRecords == {[kind |-> "dict", key |-> k] : k \in EventKeys} \cup {[kind |-> "nondict", key |-> <<>>]}

PdfEvents == UNION {[1..n -> PdfRecords] : n \in 0..MaxRecords}

\* urllib.parse.unquote: %32 is the character 2
UnquoteSegment(segment) == IF segment = "t%32" THEN "t2" ELSE segment
Unquote(key) == [k \in 1..Len(key) |-> UnquoteSegment(key[k])]

\* object_key.startswith('pending-conversion/')
InPending(object_key) == Len(object_key) >= 2 /\ object_key[1] = PendingPrefix

\* object_key.endswith('.html')
IsHtml(object_key) == object_key # <<>> /\ object_key[Len(object_key)] = HtmlName

\* len(path_parts) < 3
InvalidPath(object_key) == Len(object_key) < 3

\* path_parts[1]
OpportunityTitle(object_key) == object_key[2]

\* f'{opportunity_title}/NOFO-File-PDF'
FinalPdfKey(opportunity_title) == <<opportunity_title, PdfName>>

\* the step of the try block that raises, if any
PdfFaults == {"none", "download", "convert", "upload", "delete"}

\* the S3 calls one record makes, in order, when `fault` is the step that
\* raises: get_object, then put_object once the conversion succeeded, then
\* delete_object once put_object returned
S3Call(op, key, ok) == [op |-> op, key |-> key, ok |-> ok]

RecordCallsDeletingBeforeUpload(object_key, fault) ==
    <<S3Call("get_object", object_key, fault # "download")>>
    \o (IF fault \in {"download", "convert"} THEN <<>>
        ELSE <<S3Call("delete_object", object_key, fault # "delete")>>
             \o (IF fault = "delete" THEN <<>>
                 ELSE <<S3Call("put_object", FinalPdfKey(OpportunityTitle(object_key)), fault # "upload")>>))

RecordCalls(object_key, fault) ==
    <<S3Call("get_object", object_key, fault # "download")>>
    \o (IF fault \in {"download", "convert"} THEN <<>>
        ELSE <<S3Call("put_object", FinalPdfKey(OpportunityTitle(object_key)), fault # "upload")>>
             \o (IF fault = "upload" THEN <<>>
                 ELSE <<S3Call("delete_object", object_key, fault # "delete")>>))

\* the bucket after the calls that succeeded
RECURSIVE ApplyCalls(_, _)
ApplyCalls(objects, calls) ==
    IF calls = <<>> THEN objects
    ELSE LET c == Head(calls)
             after == IF ~c.ok THEN objects
                      ELSE IF c.op = "put_object" THEN objects \cup {c.key}
                      ELSE IF c.op = "delete_object" THEN objects \ {c.key}
                      ELSE objects
         IN  ApplyCalls(after, Tail(calls))

\* what the loop does after the except clause of a record: continue
NextRecordAbortingBatch(pos, n, failed) == IF failed THEN n + 1 ELSE pos + 1
NextRecord(pos, n, failed) == pos + 1

\* the outcome of one pass of the loop
Outcome(kind, calls) == [kind |-> kind, calls |-> calls]

NoPdfEvent == <<>>

PdfInit ==
    /\ pdfObjects \in SUBSET {<<PendingPrefix, "t1", HtmlName>>, <<PendingPrefix, "t2", HtmlName>>}
    /\ pdfPc = "idle"
    /\ pdfEvent = NoPdfEvent
    /\ pdfPos = 0
    /\ pdfLog = <<>>
    /\ pdfResp = 0

\* a storage event arrives
PdfReceive ==
    /\ pdfPc = "idle"
    /\ \E event \in PdfEvents : pdfEvent' = event
    /\ pdfPos' = 1
    /\ pdfLog' = <<>>
    /\ pdfPc' = "loop"
    /\ UNCHANGED <<pdfObjects, pdfResp>>
    /\ UNCHANGED notPdf

\* one pass of `for record in event.get('Records', [])`
PdfRecord ==
    /\ pdfPc = "loop"
    /\ pdfPos <= Len(pdfEvent)
    /\ LET record == pdfEvent[pdfPos]
           n == Len(pdfEvent)
       IN  IF record.kind # "dict"
           THEN /\ pdfLog' = Append(pdfLog, Outcome("failed", <<>>))      \* AttributeError
                /\ pdfPos' = NextRecord(pdfPos, n, TRUE)
                /\ UNCHANGED pdfObjects
           ELSE LET object_key == Unquote(record.key)
                IN  IF ~InPending(object_key) \/ ~IsHtml(object_key) \/ InvalidPath(object_key)
                    THEN /\ pdfLog' = Append(pdfLog, Outcome("skipped", <<>>))
                         /\ pdfPos' = NextRecord(pdfPos, n, FALSE)
                         /\ UNCHANGED pdfObjects
                    ELSE \E fault \in PdfFaults :
                            /\ object_key \notin pdfObjects => fault = "download"   \* NoSuchKey
                            /\ LET calls == RecordCalls(object_key, fault)
                               IN  /\ pdfObjects' = ApplyCalls(pdfObjects, calls)
                                   /\ pdfLog' = Append(pdfLog,
                                         Outcome(IF fault = "none" THEN "converted" ELSE fault, calls))
                                   /\ pdfPos' = NextRecord(pdfPos, n, fault # "none")
    /\ UNCHANGED <<pdfPc, pdfEvent, pdfResp>>
    /\ UNCHANGED notPdf

\* after the loop: return statusCode 200
PdfFinish ==
    /\ pdfPc = "loop"
    /\ pdfPos > Len(pdfEvent)
    /\ pdfResp' = 200
    /\ pdfPc' = "done"
    /\ UNCHANGED <<pdfObjects, pdfEvent, pdfPos, pdfLog>>
    /\ UNCHANGED notPdf

\* the response is returned and the adapter waits for the next event
PdfReturn ==
    /\ pdfPc = "done"
    /\ pdfPc' = "idle"
    /\ pdfEvent' = NoPdfEvent
    /\ pdfPos' = 0
    /\ pdfLog' = <<>>
    /\ pdfResp' = 0
    /\ UNCHANGED pdfObjects
    /\ UNCHANGED notPdf

PdfNext == PdfReceive \/ PdfRecord \/ PdfFinish \/ PdfReturn

----------------------------------------------------------------------------
(* Claims about the HTML-to-PDF adapter *)

FailedKinds == {"failed", "download", "convert", "upload", "delete"}

\* C22: a failure while processing one storage-event record (download,
\* conversion, upload or delete) does not abort the batch: the handler makes
\* one pass over every record of the event, so every later record is still
\* processed, and it returns status 200.
C22_BatchNotAborted ==
    (pdfPc = "done") => (pdfResp = 200 /\ Len(pdfLog) = Len(pdfEvent))

\* C22 witness: the conversion of the first record failed, the second record
\* was converted and its PDF is in the bucket, and the answer is 200.
C22_Witness ==
    /\ pdfPc = "done" /\ pdfResp = 200
    /\ Len(pdfLog) = 2
    /\ pdfLog[1].kind = "convert"
    /\ pdfLog[2].kind = "converted"
    /\ FinalPdfKey("t2") \in pdfObjects

\* C27: the source HTML object of a record is deleted only after the PDF
\* rendered for that record has been uploaded successfully: every
\* delete_object call follows a successful put_object of the same record; if
\* the download, the conversion or the upload fails, no delete is issued and
\* the source HTML object is left in place.
C27_DeleteOnlyAfterUpload ==
    \A k \in 1..Len(pdfLog) :
        LET calls == pdfLog[k].calls
        IN  /\ \A j \in 1..Len(calls) :
                  calls[j].op = "delete_object"
                     => /\ j > 1
                        /\ calls[j - 1].op = "put_object" /\ calls[j - 1].ok
                        /\ calls[j].key = Unquote(pdfEvent[k].key)
                        /\ calls[j - 1].key = FinalPdfKey(OpportunityTitle(calls[j].key))
            /\ pdfLog[k].kind \in {"download", "convert", "upload"}
                  => \A j \in 1..Len(calls) : calls[j].op # "delete_object"

\* C27 witness: the upload of one record failed and its source HTML is still
\* in the bucket; another record was uploaded and then its source deleted.
C27_Witness ==
    /\ pdfPc = "done"
    /\ Len(pdfLog) = 2
    /\ pdfLog[1].kind = "upload"
    /\ Unquote(pdfEvent[1].key) \in pdfObjects
    /\ pdfLog[2].kind = "converted"
    /\ Unquote(pdfEvent[2].key) \notin pdfObjects
    /\ FinalPdfKey(OpportunityTitle(Unquote(pdfEvent[2].key))) \in pdfObjects

----------------------------------------------------------------------------
(* Search index bootstrap: create-index-lambda *)

MaxBootstraps == 5

\* what client.indices.create may raise
CreateErrors == {"resource_already_exists_exception", "AuthorizationException", "ConnectionTimeout"}

\* what client.indices.exists may raise
ExistsErrors == {"ConnectionError"}

NoError == ""

Returned(value) == [out |-> "returned", value |-> value]
Raised(e) == [out |-> "raised", value |-> e]
NoIdxResult == [out |-> "none", value |-> ""]

\* the except clause after the existence check: `exists` is "true" or
\* "false" when the check returned, "raised" when it raised
ExceptResultRaisingAlways(exists, e) == Raised(e)
ExceptResult(exists, e) == IF exists = "true" THEN Returned("True") ELSE Raised(e)

IdxInit ==
    /\ idxExists \in BOOLEAN
    /\ idxPc = "idle"
    /\ idxCreateError = NoError
    /\ idxE = NoError
    /\ idxCheck = "none"
    /\ idxResult = NoIdxResult
    /\ idxRuns = 0

\* lambda_handler is invoked: environment, payload, client
IdxInvoke ==
    /\ idxPc = "idle"
    /\ idxRuns < MaxBootstraps
    /\ idxRuns' = idxRuns + 1
    /\ idxPc' = "create"
    /\ UNCHANGED <<idxExists, idxCreateError, idxE, idxCheck, idxResult>>
    /\ UNCHANGED notIdx

\* client.indices.create succeeds when there is no such index
IdxCreate ==
    /\ idxPc = "create"
    /\ ~idxExists
    /\ idxExists' = TRUE
    /\ idxPc' = "verify"
    /\ UNCHANGED <<idxCreateError, idxE, idxCheck, idxResult, idxRuns>>
    /\ UNCHANGED notIdx

\* client.indices.create raises: the index exists already, the request is
\* refused, or the connection times out with the index created or not
IdxCreateFails ==
    /\ idxPc = "create"
    /\ \E e \in CreateErrors :
          /\ (e = "resource_already_exists_exception") => idxExists
          /\ idxCreateError' = e
          /\ idxE' = e
          /\ IF e = "ConnectionTimeout"
             THEN idxExists' \in {idxExists, TRUE}
             ELSE idxExists' = idxExists
    /\ idxPc' = "except"
    /\ UNCHANGED <<idxCheck, idxResult, idxRuns>>
    /\ UNCHANGED notIdx

\* after the sleep: client.indices.exists inside the try block, then
\* `return response`; an exception of the check is caught like one of create
IdxVerify ==
    /\ idxPc = "verify"
    /\ \E e \in {NoError} \cup ExistsErrors :
          IF e = NoError
          THEN /\ idxResult' = Returned("response")
               /\ idxPc' = "done"
               /\ UNCHANGED idxE
          ELSE /\ idxE' = e
               /\ idxPc' = "except"
               /\ UNCHANGED idxResult
    /\ UNCHANGED <<idxExists, idxCreateError, idxCheck, idxRuns>>
    /\ UNCHANGED notIdx

\* the except clause: client.indices.exists, return True or raise e
IdxExcept ==
    /\ idxPc = "except"
    /\ \E exists \in {IF idxExists THEN "true" ELSE "false", "raised"} :
          /\ idxCheck' = exists
          /\ idxResult' = ExceptResult(exists, idxE)
    /\ idxPc' = "done"
    /\ UNCHANGED <<idxExists, idxCreateError, idxE, idxRuns>>
    /\ UNCHANGED notIdx

\* the invocation ends
IdxReturn ==
    /\ idxPc = "done"
    /\ idxPc' = "idle"
    /\ idxCreateError' = NoError
    /\ idxE' = NoError
    /\ idxCheck' = "none"
    /\ idxResult' = NoIdxResult
    /\ UNCHANGED <<idxExists, idxRuns>>
    /\ UNCHANGED notIdx

IdxNext == IdxInvoke \/ IdxCreate \/ IdxCreateFails \/ IdxVerify \/ IdxExcept \/ IdxReturn

----------------------------------------------------------------------------
(* Claims about the search index bootstrap *)

CreationFailed == idxPc = "done" /\ idxCreateError # NoError

\* C23: search index bootstrap is idempotent: when index creation fails and
\* the existence check finds the index (it exists already), the handler
\* returns success instead of raising; when creation fails and the index
\* does not exist, or the existence check itself fails, the original
\* creation error is raised.
C23_ExistingIndexIsSuccess ==
    CreationFailed =>
        /\ idxCheck = "true" => (idxExists /\ idxResult = Returned("True"))
        /\ idxCheck \in {"false", "raised"} => idxResult = Raised(idxCreateError)
        /\ idxCheck # "none"
        /\ (idxCreateError = "resource_already_exists_exception" /\ idxCheck # "raised")
              => idxResult.out = "returned"

\* C23 witness: a second run found the index the first run had created:
\* creation failed with resource_already_exists_exception and the handler
\* returned True.
C23_Witness ==
    /\ CreationFailed
    /\ idxRuns = 2
    /\ idxCreateError = "resource_already_exists_exception"
    /\ idxCheck = "true"
    /\ idxResult = Returned("True")

----------------------------------------------------------------------------
(* get_last_sync of the sync adapter *)

MaxSyncJobs == 2
MaxSyncTime == 3
TicksPerMinute == 2

\* an element of ingestionJobSummaries
JobSummary(status, updatedAt) == [status |-> status, updatedAt |-> updatedAt]

JobSummaries == {JobSummary(s, t) : s \in {"COMPLETE", "IN_PROGRESS"}, t \in 1..MaxSyncTime}

\* the ingestion jobs of one data source, in the order the service lists them
SummaryLists == UNION {[1..n -> JobSummaries] : n \in 0..MaxSyncJobs}

\* the job lists of the two data sources
SourceJobs ==
    {jobsOf \in [DataSources -> SummaryLists] : Len(jobsOf["nofo"]) < MaxSyncJobs}

\* client.list_ingestion_jobs(dataSourceId, filters STATUS EQ status)
\* ['ingestionJobSummaries']
ListSummaries(summaries, status) == SelectSeq(summaries, LAMBDA j : j.status = status)

\* all_syncs: the COMPLETE summaries of source_index, then those of
\* user_documents_source, each only when the id is non-empty
AllSyncsNofoOnly(cfg, jobsOf) ==
    IF cfg.source THEN ListSummaries(jobsOf["nofo"], "COMPLETE") ELSE <<>>
AllSyncsOf(cfg, jobsOf) ==
    (IF cfg.source THEN ListSummaries(jobsOf["nofo"], "COMPLETE") ELSE <<>>)
    \o (IF cfg.userDocs THEN ListSummaries(jobsOf["user-documents"], "COMPLETE") ELSE <<>>)

\* all_syncs.sort(key=lambda x: x['updatedAt'], reverse=True): stable
RECURSIVE InsertByUpdatedAt(_, _)
InsertByUpdatedAt(acc, x) ==
    IF acc = <<>> THEN <<x>>
    ELSE IF acc[Len(acc)].updatedAt >= x.updatedAt THEN Append(acc, x)
    ELSE Append(InsertByUpdatedAt(SubSeq(acc, 1, Len(acc) - 1), x), acc[Len(acc)])

RECURSIVE SortByUpdatedAt(_)
SortByUpdatedAt(s) ==
    IF s = <<>> THEN <<>>
    ELSE InsertByUpdatedAt(SortByUpdatedAt(SubSeq(s, 1, Len(s) - 1)), s[Len(s)])

\* strftime('%B %d, %Y, %I:%M%p UTC'): the time to the minute
Strftime(updatedAt) == updatedAt \div TicksPerMinute

\* the body of the response
NoSyncHistory == [kind |-> "No sync history available", time |-> 0]
SyncTime(time) == [kind |-> "time", time |-> time]

\* get_last_sync
GetLastSync(cfg, jobsOf) ==
    LET all_syncs == AllSyncsOf(cfg, jobsOf)
    IN  IF all_syncs = <<>> THEN NoSyncHistory
        ELSE SyncTime(Strftime(SortByUpdatedAt(all_syncs)[1].updatedAt))

NoLastSyncBody == [kind |-> "none", time |-> 0]

LastInit ==
    /\ lsCfg \in SyncCfgs
    /\ lsJobs \in SourceJobs
    /\ lsPc = "idle"
    /\ lsStatus = 0
    /\ lsBody = NoLastSyncBody

\* get_last_sync is called and returns
LastSyncHandle ==
    /\ lsPc = "idle"
    /\ lsBody' = GetLastSync(lsCfg, lsJobs)
    /\ lsStatus' = 200
    /\ lsPc' = "done"
    /\ UNCHANGED <<lsCfg, lsJobs>>
    /\ UNCHANGED notLast

\* the response is returned and the adapter waits for the next event
LastSyncReturn ==
    /\ lsPc = "done"
    /\ lsPc' = "idle"
    /\ lsStatus' = 0
    /\ lsBody' = NoLastSyncBody
    /\ UNCHANGED <<lsCfg, lsJobs>>
    /\ UNCHANGED notLast

LastNext == LastSyncHandle \/ LastSyncReturn

----------------------------------------------------------------------------
(* Claims about get_last_sync *)

\* updatedAt of the COMPLETE ingestion jobs of the configured data sources
CompletedTimes ==
    {lsJobs[ds][k].updatedAt : <<ds, k>> \in
        {p \in DataSources \X (1..MaxSyncJobs) :
            /\ Configured(lsCfg, p[1])
            /\ p[2] <= Len(lsJobs[p[1]])
            /\ lsJobs[p[1]][p[2]].status = "COMPLETE"}}

----------------------------------------------------------------------------
(* Specifications *)

\* each adapter is checked on its own; the state of the others stays put
DelParked ==
    /\ delPc = "idle" /\ delReq = NoDelReq /\ delResp = 0 /\ delEnv = NoFail
    /\ delCfg = [userBucket |-> TRUE, legacyBucket |-> FALSE, syncFn |-> TRUE]
    /\ bucket = InitialObjects /\ delCalls = <<>> /\ invokeCalls = <<>>

SyncParked ==
    /\ syncCfg = [source |-> TRUE, userDocs |-> TRUE]
    /\ jobs = [ds \in DataSources |-> <<>>]
    /\ inv = [i \in Invocations |-> IdleInvocation]
    /\ startLog = {}

DraftParked ==
    /\ drafts = [k \in DraftKeys |-> NoRow] /\ now = 1 /\ dPc = "idle"
    /\ dReq = NoDraftRequest /\ dFault = "none" /\ dPrev = NoRow
    /\ dResp = NoDraftResponse

ListParked ==
    /\ lAdapter = "draft" /\ index = <<>> /\ lPc = "idle" /\ lReq = NoListRequest
    /\ lLimit = 0 /\ lFilter = None /\ lItems = <<>> /\ lKey = None
    /\ lResp = NoListResponse

FbParked ==
    /\ fbTable = [k \in FbKeys |-> NoFbRow] /\ fbClock = 1 /\ fbIds = 0
    /\ fbPc = "idle" /\ fbReq = NoFbRequest /\ fbResp = NoFbResponse

CsvParked ==
    /\ csvItems = <<>> /\ csvContent = <<>> /\ csvPc = "idle"

HttpParked ==
    /\ hPc = "idle" /\ hReq = NoHttpRequest /\ hResp = NoHttpResponse /\ hCalls = <<>>

SessParked ==
    /\ sessions = NoSessRow /\ sInv = [i \in Invocations |-> IdleSession]

UserParked ==
    /\ uAdapter = "draft" /\ uTable = <<>> /\ uPc = "idle" /\ uReq = NoUserRequest
    /\ uListing = NoListing /\ uPos = 0 /\ uRet = <<>> /\ uResp = NoUserResponse

PdfParked ==
    /\ pdfObjects = {} /\ pdfPc = "idle" /\ pdfEvent = NoPdfEvent
    /\ pdfPos = 0 /\ pdfLog = <<>> /\ pdfResp = 0

IdxParked ==
    /\ idxExists = FALSE /\ idxPc = "idle" /\ idxCreateError = NoError /\ idxE = NoError
    /\ idxCheck = "none" /\ idxResult = NoIdxResult /\ idxRuns = 0

LastParked ==
    /\ lsCfg = [source |-> FALSE, userDocs |-> FALSE] /\ lsJobs = [ds \in DataSources |-> <<>>]
    /\ lsPc = "idle" /\ lsStatus = 0 /\ lsBody = NoLastSyncBody

InitDel == DelInit /\ SyncParked /\ DraftParked /\ ListParked /\ FbParked /\ CsvParked /\ HttpParked /\ SessParked /\ UserParked /\ PdfParked /\ IdxParked /\ LastParked
SpecDel == InitDel /\ [][DelNext]_vars

InitSync == SyncInit /\ DelParked /\ DraftParked /\ ListParked /\ FbParked /\ CsvParked /\ HttpParked /\ SessParked /\ UserParked /\ PdfParked /\ IdxParked /\ LastParked
SpecSync == InitSync /\ [][SyncNext]_vars

InitDraft == DraftInit /\ DelParked /\ SyncParked /\ ListParked /\ FbParked /\ CsvParked /\ HttpParked /\ SessParked /\ UserParked /\ PdfParked /\ IdxParked /\ LastParked
SpecDraft == InitDraft /\ [][DraftNext]_vars

InitList == ListInit /\ DelParked /\ SyncParked /\ DraftParked /\ FbParked /\ CsvParked /\ HttpParked /\ SessParked /\ UserParked /\ PdfParked /\ IdxParked /\ LastParked
SpecList == InitList /\ [][ListNext]_vars

InitFb == FbInit /\ DelParked /\ SyncParked /\ DraftParked /\ ListParked /\ CsvParked /\ HttpParked /\ SessParked /\ UserParked /\ PdfParked /\ IdxParked /\ LastParked
SpecFb == InitFb /\ [][FbNext]_vars

InitCsv == CsvInit /\ DelParked /\ SyncParked /\ DraftParked /\ ListParked /\ FbParked /\ HttpParked /\ SessParked /\ UserParked /\ PdfParked /\ IdxParked /\ LastParked
SpecCsv == InitCsv /\ [][CsvNext]_vars

InitHttp == HttpInit /\ HttpBackend /\ DelParked /\ DraftParked /\ ListParked /\ FbParked /\ CsvParked /\ SessParked /\ UserParked /\ PdfParked /\ IdxParked /\ LastParked
SpecHttp == InitHttp /\ [][HttpNext]_vars

InitSess == SessInit /\ DelParked /\ SyncParked /\ DraftParked /\ ListParked /\ FbParked /\ CsvParked /\ HttpParked /\ UserParked /\ PdfParked /\ IdxParked /\ LastParked
SpecSess == InitSess /\ [][SessNext]_vars

InitUser == UserInit /\ DelParked /\ SyncParked /\ DraftParked /\ ListParked /\ FbParked /\ CsvParked /\ HttpParked /\ SessParked /\ PdfParked /\ IdxParked /\ LastParked
SpecUser == InitUser /\ [][UserNext]_vars

InitPdf == PdfInit /\ DelParked /\ SyncParked /\ DraftParked /\ ListParked /\ FbParked /\ CsvParked /\ HttpParked /\ SessParked /\ UserParked /\ IdxParked /\ LastParked
SpecPdf == InitPdf /\ [][PdfNext]_vars

InitIdx == IdxInit /\ DelParked /\ SyncParked /\ DraftParked /\ ListParked /\ FbParked /\ CsvParked /\ HttpParked /\ SessParked /\ UserParked /\ PdfParked /\ LastParked
SpecIdx == InitIdx /\ [][IdxNext]_vars

InitLast == LastInit /\ DelParked /\ SyncParked /\ DraftParked /\ ListParked /\ FbParked /\ CsvParked /\ HttpParked /\ SessParked /\ UserParked /\ PdfParked /\ IdxParked
SpecLast == InitLast /\ [][LastNext]_vars

====
